---- MODULE Spec2Model ----
(***************************************************************************)
(* BufferLayerConsumer (services/surfaceflinger/BufferLayerConsumer.cpp):  *)
(* the per-slot EGL image cache, the acquire/bind/release protocol of      *)
(* updateTexImage, the release/acquire fence synchronisation and the       *)
(* transform matrix computation.                                           *)
(*                                                                         *)
(* Every operation that runs under mMutex is one atomic action.  The       *)
(* operations are written as operators on a record `s` of the object's     *)
(* fields; `s.log` is the sequence of collaborator / EGL / GL calls made   *)
(* by the operation and `s.ret` the status it returns.                     *)
(***************************************************************************)
EXTENDS Integers, Sequences, FiniteSets, TLC

\* ------------------------------------------------------------- bounds
NumSlots == 2
MaxBuffers == 2
MaxFrame == 2

\* ------------------------------------------------- program constants
INVALID_BUFFER_SLOT == -1
EGL_NO_DISPLAY == 0
EGL_NO_CONTEXT == 0
NATIVE_WINDOW_TRANSFORM_FLIP_H == 1
NATIVE_WINDOW_TRANSFORM_FLIP_V == 2
NATIVE_WINDOW_TRANSFORM_ROT_90 == 4
NATIVE_WINDOW_SCALING_MODE_FREEZE == 0
NATIVE_WINDOW_SCALING_MODE_SCALE_CROP == 1

NO_ERROR == "NO_ERROR"
NO_INIT == "NO_INIT"
INVALID_OPERATION == "INVALID_OPERATION"
UNKNOWN_ERROR == "UNKNOWN_ERROR"
NO_BUFFER_AVAILABLE == "NO_BUFFER_AVAILABLE"

NULL == 0

Slots == 0 .. (NumSlots - 1)
Buffers == 1 .. MaxBuffers
Frames == 1 .. MaxFrame
ImageIds == 1 .. (NumSlots + 1)
Displays == {1, 2}
Contexts == {1, 2}

\* ---------------------------------------------------------------- Rect
MakeRect(l, t, r, b) == [left |-> l, top |-> t, right |-> r, bottom |-> b]
EMPTY_RECT == MakeRect(0, 0, 0, 0)
INVALID_RECT == MakeRect(0, 0, -1, -1)
RectWidth(r) == r.right - r.left
RectHeight(r) == r.bottom - r.top
RectIsValid(r) == RectWidth(r) >= 0 /\ RectHeight(r) >= 0
RectIsEmpty(r) == RectWidth(r) <= 0 \/ RectHeight(r) <= 0

\* ------------------------------------------------------ GraphicBuffer
\* The buffers the producer allocates: odd ids are 4x4 and not protected,
\* even ids are 4x2 with GRALLOC_USAGE_PROTECTED set.  The pixel format
\* cycles through PixelFormats: buffer 1 is RGBA_8888, buffer 2 is YV12.
PixelFormats ==
    <<"RGBA_8888", "YV12", "RGBX_8888", "RGBA_FP16", "RGBA_1010102", "RGB_888",
      "RGB_565", "BGRA_8888", "YCbCr_420_888", "RGBA_4444", "BLOB", "RGBA_5551">>
BufWidth(b) == 4
BufHeight(b) == IF b % 2 = 1 THEN 4 ELSE 2
BufPixelFormat(b) == PixelFormats[((b - 1) % Len(PixelFormats)) + 1]
BufUsageProtected(b) == b % 2 = 0

\* The frames the producer queues.  Frame f carries the frame number f; its
\* crop is at the origin (f = 1, 4, ...), away from the origin (f = 2, 5, ...)
\* or empty (f = 3, 6, ...), and its other metadata differs from frame to
\* frame.  Odd frames carry a valid acquire fence, even frames Fence::NO_FENCE.
FrameCrop(f) ==
    CASE f % 3 = 1 -> MakeRect(0, 0, 2, 2)
      [] f % 3 = 2 -> MakeRect(1, 1, 3, 2)
      [] OTHER -> EMPTY_RECT
FrameTransform(f) == (3 * f + 1) % 8
FrameScalingMode(f) == f % 2
FrameTimestamp(f) == 100 + f
FrameDataSpace(f) == 200 + f
FrameFence(f) == IF f % 2 = 1 THEN 300 + f ELSE NULL
FrameFenceTime(f) == 400 + f

\* ---------------------------------------------------------------- mat4
\* A mat4 is its 16 entries in column-major order (entry 4*col + row + 1),
\* as exact fractions n[i] / d in lowest terms: the float rounding of the
\* source is not modelled.
RECURSIVE Gcd(_, _)
Gcd(a, b) == IF b = 0 THEN a ELSE Gcd(b, a % b)
Abs(x) == IF x < 0 THEN -x ELSE x
RECURSIVE GcdSeq(_, _, _)
GcdSeq(n, i, g) == IF i > Len(n) THEN g ELSE GcdSeq(n, i + 1, Gcd(g, Abs(n[i])))
LowestTerms(n, d) ==
    LET g == GcdSeq(n, 1, d)
    IN  [n |-> [i \in 1 .. 16 |-> n[i] \div g], d |-> d \div g]
\* The matrix n / d, with n evaluated once.
Mat(n, d) == CHOOSE m \in {LowestTerms(x, d) : x \in {n}} : TRUE
MatProduct(a, b) ==
    Mat([i \in 1 .. 16 |->
            LET c == (i - 1) \div 4
                r == (i - 1) % 4
            IN  a.n[r + 1] * b.n[4 * c + 1] + a.n[4 + r + 1] * b.n[4 * c + 2]
                + a.n[8 + r + 1] * b.n[4 * c + 3] + a.n[12 + r + 1] * b.n[4 * c + 4]],
        a.d * b.d)
\* a * b, with both operands evaluated once.
MatMul(a, b) == CHOOSE m \in {MatProduct(x, y) : x \in {a}, y \in {b}} : TRUE
mtxIdentity == Mat(<<1, 0, 0, 0, 0, 1, 0, 0, 0, 0, 1, 0, 0, 0, 0, 1>>, 1)
mtxFlipH == Mat(<<-1, 0, 0, 0, 0, 1, 0, 0, 0, 0, 1, 0, 1, 0, 0, 1>>, 1)
mtxFlipV == Mat(<<1, 0, 0, 0, 0, -1, 0, 0, 0, 0, 1, 0, 0, 1, 0, 1>>, 1)
mtxRot90 == Mat(<<0, 1, 0, 0, -1, 0, 0, 0, 0, 0, 1, 0, 1, 0, 0, 1>>, 1)
\* The value read through a null buffer pointer.
mtxUndefined == [n |-> [i \in 1 .. 16 |-> 0], d |-> 0]

HasBit(mask, bit) == (mask \div bit) % 2 = 1

\* A shrink of a whole texel for every format.
ShrinkAmount2WholeTexel(format, filtering) == IF filtering THEN 2 ELSE 0

\* Twice the shrink amount, in texels: 0 without filtering, 1 (half a texel)
\* for the formats without subsampling, 2 (a whole texel) otherwise.
ShrinkAmount2(format, filtering) ==
    IF ~filtering THEN 0
    ELSE IF format \in {"RGBA_8888", "RGBX_8888", "RGBA_FP16", "RGBA_1010102",
                        "RGB_888", "RGB_565", "BGRA_8888"} THEN 1
    ELSE 2

\* The crop matrix of computeTransformMatrix for a buffer bw x bh, with the
\* common denominator 2 * bw * bh.
CropMatrix(bw, bh, format, cropRect, filtering) ==
    LET sh2 == ShrinkAmount2(format, filtering)
        D == 2 * bw * bh
        shrinkX == RectWidth(cropRect) < bw
        shrinkY == RectHeight(cropRect) < bh
        tx == IF shrinkX THEN (2 * cropRect.left + sh2) * bh ELSE 0
        sx == IF shrinkX THEN (2 * RectWidth(cropRect) - 2 * sh2) * bh ELSE D
        ty == IF shrinkY THEN (2 * (bh - cropRect.bottom) + sh2) * bw ELSE 0
        sy == IF shrinkY THEN (2 * RectHeight(cropRect) - 2 * sh2) * bw ELSE D
    IN  Mat(<<sx, 0, 0, 0, 0, sy, 0, 0, 0, 0, D, 0, tx, ty, 0, D>>, D)

\* The orientation built by multiplying each matrix on the left of the
\* running transform instead of on its right.
OrientationLeftMultiply(transform) ==
    LET x1 == IF HasBit(transform, NATIVE_WINDOW_TRANSFORM_FLIP_H)
              THEN MatMul(mtxFlipH, mtxIdentity) ELSE mtxIdentity
        x2 == IF HasBit(transform, NATIVE_WINDOW_TRANSFORM_FLIP_V)
              THEN MatMul(mtxFlipV, x1) ELSE x1
    IN  IF HasBit(transform, NATIVE_WINDOW_TRANSFORM_ROT_90)
        THEN MatMul(mtxRot90, x2) ELSE x2

Orientation(transform) ==
    LET x1 == IF HasBit(transform, NATIVE_WINDOW_TRANSFORM_FLIP_H)
              THEN MatMul(mtxIdentity, mtxFlipH) ELSE mtxIdentity
        x2 == IF HasBit(transform, NATIVE_WINDOW_TRANSFORM_FLIP_V)
              THEN MatMul(x1, mtxFlipV) ELSE x1
    IN  IF HasBit(transform, NATIVE_WINDOW_TRANSFORM_ROT_90)
        THEN MatMul(x2, mtxRot90) ELSE x2

computeTransformMatrix(buf, cropRect, transform, filtering) ==
    LET xform == Orientation(transform)
    IN  IF ~RectIsEmpty(cropRect)
        THEN IF buf = NULL THEN mtxUndefined
             ELSE MatMul(mtxFlipV,
                         MatMul(CropMatrix(BufWidth(buf), BufHeight(buf),
                                           BufPixelFormat(buf), cropRect, filtering),
                                xform))
        ELSE MatMul(mtxFlipV, xform)

\* ------------------------------------------------------- scaleDownCrop
\* The crop with half of the shrink, rounded down, taken off both edges.
scaleDownCropEvenSplit(crop, bufferWidth, bufferHeight) ==
    LET cw == RectWidth(crop)
        ch == RectHeight(crop)
        dw == cw - (ch * bufferWidth) \div bufferHeight
        dh == ch - (cw * bufferHeight) \div bufferWidth
    IN  IF cw * bufferHeight > ch * bufferWidth
        THEN [crop EXCEPT !.left = @ + dw \div 2, !.right = @ - dw \div 2]
        ELSE IF cw * bufferHeight < ch * bufferWidth
        THEN [crop EXCEPT !.top = @ + dh \div 2, !.bottom = @ - dh \div 2]
        ELSE crop

\* The uint32_t arithmetic of the source, for crops and sizes whose products
\* stay below 2^31 (no wrap-around happens in that range).
scaleDownCrop(crop, bufferWidth, bufferHeight) ==
    LET cw == RectWidth(crop)
        ch == RectHeight(crop)
        tooWide == cw * bufferHeight > ch * bufferWidth
        tooTall == cw * bufferHeight < ch * bufferWidth
        newWidth == IF tooWide THEN (ch * bufferWidth) \div bufferHeight ELSE cw
        newHeight == IF ~tooWide /\ tooTall
                     THEN (cw * bufferHeight) \div bufferWidth ELSE ch
        dw == cw - newWidth
        dh == ch - newHeight
    IN  IF newWidth < cw
        THEN [crop EXCEPT !.left = @ + dw \div 2,
                          !.right = @ - (dw - dw \div 2)]
        ELSE IF newHeight < ch
        THEN [crop EXCEPT !.top = @ + dh \div 2,
                          !.bottom = @ - (dh - dh \div 2)]
        ELSE crop

\* ------------------------------------------------------------- state
VARIABLES
    ext,    \* the capability probes' cached answers (the static hasIt flags,
            \* SyncFeatures): [crop, prot, nativeFence], fixed per process
    blc,    \* the BufferLayerConsumer object: its fields, the ConsumerBase
            \* fields it uses (mAbandoned, mSlots) and the EglImage objects
    call,   \* the operation that ran last: its name, inputs, status and the
            \* calls it made on the queue, EGL and GL
    srf,    \* the thread inside setReleaseFence, which runs without mMutex
    pure,   \* input and output of a pure function applied on its own
    firstCall   \* the EGL display and context the caller had current in the
                \* first updateTexImage that reached the EGL state check

vars == <<ext, blc, call, srf, pure, firstCall>>

hasEglAndroidImageCrop == ext.crop
hasEglProtectedContent == ext.prot
useNativeFenceSync == ext.nativeFence
useWaitSync == ext.nativeFence

isEglImageCroppable(crop) ==
    hasEglAndroidImageCrop /\ (crop.left = 0 /\ crop.top = 0)

\* ---------------------------------------------------------- the call log
Ev(e, slot, buf) == [e |-> e, slot |-> slot, buf |-> buf]
Emit(s, e, slot, buf) == [s EXCEPT !.log = Append(@, Ev(e, slot, buf))]
Return(s, status) == [s EXCEPT !.ret = status]
Events(log) == {log[i].e : i \in 1 .. Len(log)}

\* ------------------------------------------------------------ EglImage
EGL_TRUE == 1
EGL_NONE == 12344
EGL_IMAGE_PRESERVED_KHR == 12498
EGL_IMAGE_CROP_LEFT_ANDROID == 12616
EGL_IMAGE_CROP_TOP_ANDROID == 12617
EGL_IMAGE_CROP_RIGHT_ANDROID == 12618
EGL_IMAGE_CROP_BOTTOM_ANDROID == 12619
EGL_PROTECTED_CONTENT_EXT == 12992

\* An EGLImageKHR: the attributes EGL read from the list it was created with.
NoAttribs == [k \in {} |-> 0]
EGL_NO_IMAGE_KHR == [valid |-> FALSE, attribs |-> NoAttribs]

\* EGL reads an attribute list as name/value pairs up to the first EGL_NONE name.
RECURSIVE AttribNames(_, _)
AttribNames(attrs, i) ==
    IF i > Len(attrs) \/ attrs[i] = EGL_NONE THEN {}
    ELSE {i} \cup AttribNames(attrs, i + 2)
eglCreateImageKHR(attrs) ==
    LET at == AttribNames(attrs, 1)
    IN  [valid |-> TRUE,
         attribs |-> [k \in {attrs[i] : i \in at} |->
                        attrs[(CHOOSE i \in at : attrs[i] = k) + 1]]]

\* EglImage::EglImage
NewEglImage(graphicBuffer) ==
    [mGraphicBuffer |-> graphicBuffer, mEglImage |-> EGL_NO_IMAGE_KHR,
     mEglDisplay |-> EGL_NO_DISPLAY, mCropRect |-> EMPTY_RECT]
\* A cell of the heap that holds no EglImage.
NoObject == NewEglImage(NULL)

\* createImage without the two assignments that carry the protected content
\* pair into the layout that leaves the crop out.
createImageAttrsCropOnly(graphicBuffer, crop) ==
    LET createProtectedImage ==
            BufUsageProtected(graphicBuffer) /\ hasEglProtectedContent
        attrs == <<EGL_IMAGE_PRESERVED_KHR, EGL_TRUE,
                   EGL_IMAGE_CROP_LEFT_ANDROID, crop.left,
                   EGL_IMAGE_CROP_TOP_ANDROID, crop.top,
                   EGL_IMAGE_CROP_RIGHT_ANDROID, crop.right,
                   EGL_IMAGE_CROP_BOTTOM_ANDROID, crop.bottom,
                   IF createProtectedImage THEN EGL_PROTECTED_CONTENT_EXT ELSE EGL_NONE,
                   IF createProtectedImage THEN EGL_TRUE ELSE EGL_NONE,
                   EGL_NONE>>
    IN  IF ~RectIsValid(crop) \/ ~isEglImageCroppable(crop)
        THEN [attrs EXCEPT ![3] = EGL_NONE]
        ELSE attrs

\* The attribute array EglImage::createImage hands to eglCreateImageKHR.
createImageAttrs(graphicBuffer, crop) ==
    LET createProtectedImage ==
            BufUsageProtected(graphicBuffer) /\ hasEglProtectedContent
        attrs == <<EGL_IMAGE_PRESERVED_KHR, EGL_TRUE,
                   EGL_IMAGE_CROP_LEFT_ANDROID, crop.left,
                   EGL_IMAGE_CROP_TOP_ANDROID, crop.top,
                   EGL_IMAGE_CROP_RIGHT_ANDROID, crop.right,
                   EGL_IMAGE_CROP_BOTTOM_ANDROID, crop.bottom,
                   IF createProtectedImage THEN EGL_PROTECTED_CONTENT_EXT ELSE EGL_NONE,
                   IF createProtectedImage THEN EGL_TRUE ELSE EGL_NONE,
                   EGL_NONE>>
        noCrop == [attrs EXCEPT ![3] = attrs[11], ![4] = attrs[12], ![5] = EGL_NONE]
    IN  IF ~RectIsValid(crop) THEN noCrop
        ELSE IF ~isEglImageCroppable(crop) THEN noCrop
        ELSE attrs

\* EglImage::createImage; eglOk is whether eglCreateImageKHR succeeds.
createImage(eglOk, graphicBuffer, crop) ==
    IF eglOk THEN eglCreateImageKHR(createImageAttrs(graphicBuffer, crop))
    ELSE EGL_NO_IMAGE_KHR

\* createIfNeeded keeping whatever EGLImageKHR the object holds.
createIfNeededKeepImage(s, env, id, eglDisplay, cropRect) ==
    LET img == s.heap[id]
        s1 == Emit(s, "eglCreateImageKHR", INVALID_BUFFER_SLOT, img.mGraphicBuffer)
        image == createImage(env.fault # "eglCreateImage", img.mGraphicBuffer, cropRect)
    IN  IF img.mEglImage # EGL_NO_IMAGE_KHR THEN Return(s, NO_ERROR)
        ELSE IF image = EGL_NO_IMAGE_KHR
        THEN Return([s1 EXCEPT !.heap[id] =
                        [img EXCEPT !.mEglDisplay = EGL_NO_DISPLAY,
                                    !.mCropRect = INVALID_RECT]],
                    UNKNOWN_ERROR)
        ELSE Return([s1 EXCEPT !.heap[id] =
                        [img EXCEPT !.mEglDisplay = eglDisplay, !.mCropRect = cropRect,
                                    !.mEglImage = image]],
                    NO_ERROR)

\* EglImage::createIfNeeded on the EglImage object `id`.
createIfNeeded(s, env, id, eglDisplay, cropRect) ==
    LET img == s.heap[id]
        haveImage == img.mEglImage # EGL_NO_IMAGE_KHR
        displayInvalid == img.mEglDisplay # eglDisplay
        cropInvalid == hasEglAndroidImageCrop /\ img.mCropRect # cropRect
        destroy == haveImage /\ (displayInvalid \/ cropInvalid)
        s1 == IF destroy THEN Emit(s, "eglDestroyImageKHR", INVALID_BUFFER_SLOT,
                                   img.mGraphicBuffer)
              ELSE s
        img1 == IF destroy
                THEN [img EXCEPT !.mEglImage = EGL_NO_IMAGE_KHR,
                                 !.mEglDisplay = EGL_NO_DISPLAY]
                ELSE img
        create == img1.mEglImage = EGL_NO_IMAGE_KHR
        s2 == IF create THEN Emit(s1, "eglCreateImageKHR", INVALID_BUFFER_SLOT,
                                  img.mGraphicBuffer)
              ELSE s1
        img2 == IF create
                THEN [img1 EXCEPT !.mEglDisplay = eglDisplay,
                                  !.mCropRect = cropRect,
                                  !.mEglImage = createImage(env.fault # "eglCreateImage",
                                                            img.mGraphicBuffer, cropRect)]
                ELSE img1
    IN  IF img2.mEglImage = EGL_NO_IMAGE_KHR
        THEN Return([s2 EXCEPT !.heap[id] =
                        [img2 EXCEPT !.mEglDisplay = EGL_NO_DISPLAY,
                                     !.mCropRect = INVALID_RECT]],
                    UNKNOWN_ERROR)
        ELSE Return([s2 EXCEPT !.heap[id] = img2], NO_ERROR)

\* ---------------------------------------------------------- BufferItem
MakeItem(slot, buf, f) ==
    [mSlot |-> slot, mGraphicBuffer |-> buf, mCrop |-> FrameCrop(f),
     mTransform |-> FrameTransform(f), mScalingMode |-> FrameScalingMode(f),
     mTimestamp |-> FrameTimestamp(f), mDataSpace |-> FrameDataSpace(f),
     mFence |-> FrameFence(f), mFenceTime |-> FrameFenceTime(f),
     mFrameNumber |-> f]
NoItem ==
    [mSlot |-> INVALID_BUFFER_SLOT, mGraphicBuffer |-> NULL, mCrop |-> EMPTY_RECT,
     mTransform |-> 0, mScalingMode |-> 0, mTimestamp |-> 0, mDataSpace |-> 0,
     mFence |-> NULL, mFenceTime |-> 0, mFrameNumber |-> 0]

\* ------------------------------------------------- EglImage references
\* sp<EglImage>: an object lives while mEglSlots or mCurrentTextureImage
\* refers to it; ~EglImage destroys the EGLImageKHR it still holds.
Referenced(s) ==
    ({s.mEglSlots[i] : i \in Slots} \cup {s.mCurrentTextureImage}) \ {NULL}
RECURSIVE DestroyUnreferenced(_, _)
DestroyUnreferenced(s, id) ==
    IF id \notin ImageIds THEN s
    ELSE IF id \in Referenced(s) \/ s.heap[id] = NoObject
    THEN DestroyUnreferenced(s, id + 1)
    ELSE LET s1 == IF s.heap[id].mEglImage # EGL_NO_IMAGE_KHR
                   THEN Emit(s, "eglDestroyImageKHR", INVALID_BUFFER_SLOT,
                             s.heap[id].mGraphicBuffer)
                   ELSE s
         IN  DestroyUnreferenced([s1 EXCEPT !.heap[id] = NoObject], id + 1)
DropReferences(s) == DestroyUnreferenced(s, 1)
GraphicBufferOf(s, id) == s.heap[id].mGraphicBuffer

\* ------------------------------------------ ConsumerBase, the queue side
ConsumerBase_acquireBufferLocked(s, acq) ==
    LET s1 == Emit(s, "acquireBuffer", acq.item.mSlot, acq.item.mGraphicBuffer)
    IN  IF acq.status # NO_ERROR THEN Return(s1, acq.status)
        ELSE IF acq.item.mGraphicBuffer # NULL
        THEN Return([s1 EXCEPT !.mSlots[acq.item.mSlot] = acq.item.mGraphicBuffer],
                    NO_ERROR)
        ELSE Return(s1, NO_ERROR)

ConsumerBase_releaseBufferLocked(s, env, slot, graphicBuffer) ==
    Return(Emit(s, "releaseBuffer", slot, graphicBuffer),
           IF env.fault = "releaseBuffer" THEN "RELEASE_ERROR" ELSE NO_ERROR)

ConsumerBase_addReleaseFenceLocked(s, env, slot, graphicBuffer) ==
    Return(Emit(s, "addReleaseFence", slot, graphicBuffer),
           IF env.fault = "addReleaseFence" THEN "ADD_FENCE_ERROR" ELSE NO_ERROR)

ConsumerBase_freeBufferLocked(s, slotIndex) ==
    [s EXCEPT !.mSlots[slotIndex] = NULL]

\* --------------------------------------------------- BufferLayerConsumer
acquireBufferLocked(s, acq) ==
    LET s1 == ConsumerBase_acquireBufferLocked(s, acq)
        slot == acq.item.mSlot
    IN  IF s1.ret # NO_ERROR THEN s1
        ELSE IF acq.item.mGraphicBuffer # NULL
        THEN LET s2 == DropReferences([s1 EXCEPT !.mEglSlots[slot] = NULL])
                 id == CHOOSE i \in ImageIds \ Referenced(s2) :
                          \A j \in ImageIds \ Referenced(s2) : i <= j
             IN  [s2 EXCEPT !.heap[id] = NewEglImage(acq.item.mGraphicBuffer),
                            !.mEglSlots[slot] = id]
        ELSE s1

\* checkAndUpdateEglStateLocked without the comparison of the context.
checkAndUpdateEglStateLockedDisplayOnly(s, env) ==
    LET s1 == [s EXCEPT !.mEglDisplay = IF @ = EGL_NO_DISPLAY THEN env.dpy ELSE @,
                        !.mEglContext = IF @ = EGL_NO_CONTEXT THEN env.ctx ELSE @]
    IN  IF s1.mEglDisplay # env.dpy \/ env.dpy = EGL_NO_DISPLAY
        THEN Return(s1, INVALID_OPERATION)
        ELSE Return(s1, NO_ERROR)

checkAndUpdateEglStateLocked(s, env) ==
    LET s1 == [s EXCEPT !.mEglDisplay = IF @ = EGL_NO_DISPLAY THEN env.dpy ELSE @,
                        !.mEglContext = IF @ = EGL_NO_CONTEXT THEN env.ctx ELSE @]
    IN  IF s1.mEglDisplay # env.dpy \/ env.dpy = EGL_NO_DISPLAY
        THEN Return(s1, INVALID_OPERATION)
        ELSE IF s1.mEglContext # env.ctx \/ env.ctx = EGL_NO_CONTEXT
        THEN Return(s1, INVALID_OPERATION)
        ELSE Return(s1, NO_ERROR)

\* A read through a null sp<EglImage> ends the process.
Crash(s) == Return([s EXCEPT !.crashed = TRUE], "CRASH")

\* syncForReleaseLocked creating and attaching no fence.
syncForReleaseLockedNoFence(s, env, dpy) == Return(s, NO_ERROR)

syncForReleaseLocked(s, env, dpy) ==
    IF s.mCurrentTexture # INVALID_BUFFER_SLOT /\ useNativeFenceSync
    THEN LET s1 == Emit(s, "eglCreateSyncKHR", s.mCurrentTexture, NULL)
         IN  IF env.fault = "eglCreateSync" THEN Return(s1, UNKNOWN_ERROR)
             ELSE LET s2 == Emit(Emit(s1, "glFlush", s.mCurrentTexture, NULL),
                                 "eglDupNativeFenceFDANDROID", s.mCurrentTexture, NULL)
                  IN  IF env.fault = "dupNativeFence" THEN Return(s2, UNKNOWN_ERROR)
                      ELSE IF s.mCurrentTextureImage = NULL THEN Crash(s2)
                      ELSE ConsumerBase_addReleaseFenceLocked(
                               s2, env, s.mCurrentTexture,
                               GraphicBufferOf(s2, s.mCurrentTextureImage))
    ELSE Return(s, NO_ERROR)

\* computeTransformMatrix for every argument tuple the consumer can pass,
\* each evaluated once.
TransformMatrixOf ==
    [buf \in {NULL} \cup Buffers,
     cropRect \in {EMPTY_RECT} \cup {FrameCrop(f) : f \in Frames},
     transform \in {0} \cup {FrameTransform(f) : f \in Frames},
     filtering \in BOOLEAN |->
        computeTransformMatrix(buf, cropRect, transform, filtering)]

computeCurrentTransformMatrixLocked(s) ==
    LET buf == IF s.mCurrentTextureImage = NULL THEN NULL
               ELSE GraphicBufferOf(s, s.mCurrentTextureImage)
    IN  [s EXCEPT !.mCurrentTransformMatrix =
            TransformMatrixOf[buf,
                              IF isEglImageCroppable(s.mCurrentCrop)
                              THEN EMPTY_RECT ELSE s.mCurrentCrop,
                              s.mCurrentTransform, s.mFilteringEnabled]]

\* The commit without the assignment of mCurrentCrop.
CommitItemKeepCrop(s, item, nextTextureImage) ==
    computeCurrentTransformMatrixLocked(
        DropReferences(
            [s EXCEPT !.mCurrentTexture = item.mSlot,
                      !.mCurrentTextureImage = nextTextureImage,
                      !.mCurrentTransform = item.mTransform,
                      !.mCurrentScalingMode = item.mScalingMode,
                      !.mCurrentTimestamp = item.mTimestamp,
                      !.mCurrentDataSpace = item.mDataSpace,
                      !.mCurrentFence = item.mFence,
                      !.mCurrentFenceTime = item.mFenceTime,
                      !.mCurrentFrameNumber = item.mFrameNumber]))

\* The assignments that make the acquired item the current one.
CommitItem(s, item, nextTextureImage) ==
    computeCurrentTransformMatrixLocked(
        DropReferences(
            [s EXCEPT !.mCurrentTexture = item.mSlot,
                      !.mCurrentTextureImage = nextTextureImage,
                      !.mCurrentCrop = item.mCrop,
                      !.mCurrentTransform = item.mTransform,
                      !.mCurrentScalingMode = item.mScalingMode,
                      !.mCurrentTimestamp = item.mTimestamp,
                      !.mCurrentDataSpace = item.mDataSpace,
                      !.mCurrentFence = item.mFence,
                      !.mCurrentFenceTime = item.mFenceTime,
                      !.mCurrentFrameNumber = item.mFrameNumber]))

\* The old buffer released at once, with or without a PendingRelease.
ReleaseOldBufferNeverDeferred(s, env, usePendingRelease) ==
    IF s.mCurrentTexture = INVALID_BUFFER_SLOT \/ s.mCurrentTextureImage = NULL
    THEN Return(s, NO_ERROR)
    ELSE ConsumerBase_releaseBufferLocked(
             s, env, s.mCurrentTexture, GraphicBufferOf(s, s.mCurrentTextureImage))

\* The old buffer released with the status of the release thrown away.
ReleaseOldBufferSwallowError(s, env, usePendingRelease) ==
    IF s.mCurrentTexture = INVALID_BUFFER_SLOT \/ s.mCurrentTextureImage = NULL
    THEN Return(s, NO_ERROR)
    ELSE LET r == ConsumerBase_releaseBufferLocked(
                      s, env, s.mCurrentTexture,
                      GraphicBufferOf(s, s.mCurrentTextureImage))
         IN  Return(IF r.ret # NO_ERROR
                    THEN Emit(r, "failed to release buffer", s.mCurrentTexture, NULL)
                    ELSE r,
                    NO_ERROR)

\* The "release old buffer" block: a status below NO_ERROR is logged ("failed
\* to release buffer") and kept as err.
ReleaseOldBuffer(s, env, usePendingRelease) ==
    IF s.mCurrentTexture = INVALID_BUFFER_SLOT THEN Return(s, NO_ERROR)
    ELSE IF s.mCurrentTextureImage = NULL THEN Crash(s)
    ELSE IF ~usePendingRelease
    THEN LET r == ConsumerBase_releaseBufferLocked(
                      s, env, s.mCurrentTexture,
                      GraphicBufferOf(s, s.mCurrentTextureImage))
         IN  IF r.ret # NO_ERROR
             THEN Emit(r, "failed to release buffer", s.mCurrentTexture, NULL)
             ELSE r
    ELSE Return([s EXCEPT !.pendingRelease =
                    [isPending |-> TRUE, currentTexture |-> s.mCurrentTexture,
                     graphicBuffer |-> GraphicBufferOf(s, s.mCurrentTextureImage)]],
                NO_ERROR)

\* syncForReleaseLocked run for every acquired slot.
AlwaysSyncForRelease(s, slot) == TRUE

\* Whether the slot changes, so that syncForReleaseLocked runs.
NeedsSyncForRelease(s, slot) == slot # s.mCurrentTexture

\* The error returned with the acquired buffer left unreleased.
DropNewFrameKeepBuffer(s, env, slot, err) == Return(s, err)

\* UNKNOWN_ERROR returned with the acquired buffer left unreleased.
CreateImageFailedKeepBuffer(s, env, slot) == Return(s, UNKNOWN_ERROR)

\* The failure branch of createIfNeeded: the buffer just acquired is released
\* and UNKNOWN_ERROR is returned.
CreateImageFailed(s, env, slot) ==
    Return(ConsumerBase_releaseBufferLocked(s, env, slot, s.mSlots[slot]),
           UNKNOWN_ERROR)

\* The acquired buffer released twice when the frame is dropped.
DropNewFrameReleaseTwice(s, env, slot, err) ==
    Return(ConsumerBase_releaseBufferLocked(
               ConsumerBase_releaseBufferLocked(s, env, slot, s.mSlots[slot]),
               env, slot, s.mSlots[slot]),
           err)

\* The failure branch of the release sync: the buffer just acquired is
\* released, the old one is not, and the frame is dropped.
DropNewFrame(s, env, slot, err) ==
    Return(ConsumerBase_releaseBufferLocked(s, env, slot, s.mSlots[slot]), err)

\* The failure branch of checkAndUpdateEglStateLocked: the buffer just
\* acquired is released and the error of the check is returned.
EglStateRejected(s, env, slot) ==
    Return(ConsumerBase_releaseBufferLocked(s, env, slot, s.mSlots[slot]), s.ret)

updateAndReleaseLocked(s, env, item, usePendingRelease) ==
    LET slot == item.mSlot
        s1 == checkAndUpdateEglStateLocked(s, env)
    IN  IF s1.ret # NO_ERROR
        THEN EglStateRejected(s1, env, slot)
        ELSE
        LET s2 == createIfNeeded(s1, env, s1.mEglSlots[slot], s1.mEglDisplay, item.mCrop)
        IN  IF s2.ret # NO_ERROR
            THEN CreateImageFailed(s2, env, slot)
            ELSE
            LET s3 == IF NeedsSyncForRelease(s2, slot)
                      THEN syncForReleaseLocked(Emit(s2, "syncForRelease", slot, NULL),
                                                env, s2.mEglDisplay)
                      ELSE s2
            IN  IF s3.crashed THEN s3
                ELSE IF s3.ret # NO_ERROR
                THEN DropNewFrame(s3, env, slot, s3.ret)
                ELSE
                LET nextTextureImage == s3.mEglSlots[slot]
                    s4 == ReleaseOldBuffer(s3, env, usePendingRelease)
                IN  IF s4.crashed THEN s4
                    ELSE Return(Emit(CommitItem(s4, item, nextTextureImage),
                                     "commit", slot, s4.mSlots[slot]),
                                s4.ret)

\* The log entry "doGLFenceWait" marks that the function was entered.
doGLFenceWaitLocked(s0, env) ==
    LET s == Emit(s0, "doGLFenceWait", s0.mCurrentTexture, s0.mCurrentFence)
    IN  IF s.mEglDisplay # env.dpy \/ s.mEglDisplay = EGL_NO_DISPLAY
        THEN Return(s, INVALID_OPERATION)
        ELSE IF s.mEglContext # env.ctx \/ s.mEglContext = EGL_NO_CONTEXT
        THEN Return(s, INVALID_OPERATION)
        ELSE IF s.mCurrentFence = NULL THEN Return(s, NO_ERROR)
        ELSE IF useWaitSync
        THEN IF env.fault = "fenceDup" THEN Return(s, "FENCE_ERROR")
             ELSE IF env.fault = "fenceCreateSync" THEN Return(s, UNKNOWN_ERROR)
             ELSE Return(Emit(s, "eglWaitSyncKHR", s.mCurrentTexture, s.mCurrentFence),
                         IF env.fault = "fenceWait" THEN UNKNOWN_ERROR ELSE NO_ERROR)
        ELSE Return(Emit(s, "waitForever", s.mCurrentTexture, s.mCurrentFence),
                    IF env.fault = "fenceWait" THEN "FENCE_ERROR" ELSE NO_ERROR)

bindTextureImageLocked(s, env) ==
    IF s.mEglDisplay = EGL_NO_DISPLAY THEN Return(s, INVALID_OPERATION)
    ELSE
    LET s1 == Emit(s, "glBindTexture", INVALID_BUFFER_SLOT, NULL)
    IN  IF s1.mCurrentTexture = INVALID_BUFFER_SLOT /\ s1.mCurrentTextureImage = NULL
        THEN Return(s1, NO_INIT)
        ELSE IF s1.mCurrentTextureImage = NULL THEN Crash(s1)
        ELSE
        LET s2 == createIfNeeded(s1, env, s1.mCurrentTextureImage, s1.mEglDisplay,
                                 s1.mCurrentCrop)
        IN  IF s2.ret # NO_ERROR THEN Return(s2, UNKNOWN_ERROR)
            ELSE doGLFenceWaitLocked(
                     Emit(s2, "glEGLImageTargetTexture2DOES", s2.mCurrentTexture,
                          GraphicBufferOf(s2, s2.mCurrentTextureImage)),
                     env)

\* A failed acquire handed back as it is, NO_BUFFER_AVAILABLE included.
AcquireFailedAsError(s) == s

\* A failed updateAndReleaseLocked handed back without glBindTexture.
AfterUpdateAndReleaseNoBind(s, env) ==
    IF s.ret # NO_ERROR THEN s ELSE bindTextureImageLocked(s, env)

\* What updateTexImage does with a failed acquire.
AcquireFailed(s) ==
    IF s.ret = NO_BUFFER_AVAILABLE
    THEN Return(Emit(s, "glBindTexture", INVALID_BUFFER_SLOT, NULL), NO_ERROR)
    ELSE s

\* What updateTexImage does after updateAndReleaseLocked.
AfterUpdateAndRelease(s, env) ==
    IF s.ret # NO_ERROR
    THEN Return(Emit(s, "glBindTexture", INVALID_BUFFER_SLOT, NULL), s.ret)
    ELSE bindTextureImageLocked(s, env)

updateTexImage(s, env, acq) ==
    IF s.mAbandoned THEN Return(s, NO_INIT)
    ELSE
    LET s1 == checkAndUpdateEglStateLocked(s, env)
    IN  IF s1.ret # NO_ERROR THEN s1
        ELSE
        LET s2 == acquireBufferLocked(s1, acq)
        IN  IF s2.ret # NO_ERROR THEN AcquireFailed(s2)
            ELSE
            LET s3 == updateAndReleaseLocked(s2, env, acq.item, FALSE)
            IN  IF s3.crashed THEN s3 ELSE AfterUpdateAndRelease(s3, env)

\* setDefaultBufferSize without the test of mAbandoned.
setDefaultBufferSizeUnguarded(s, w, h, queueStatus) ==
    Return(Emit([s EXCEPT !.mDefaultWidth = w, !.mDefaultHeight = h],
                "setDefaultBufferSize", w, h),
           queueStatus)

setDefaultBufferSize(s, w, h, queueStatus) ==
    IF s.mAbandoned THEN Return(s, NO_INIT)
    ELSE Return(Emit([s EXCEPT !.mDefaultWidth = w, !.mDefaultHeight = h],
                     "setDefaultBufferSize", w, h),
                queueStatus)

\* setFilteringEnabled storing the flag and leaving the matrix as it is.
setFilteringEnabledNoRecompute(s, enabled) ==
    IF s.mAbandoned THEN Return(s, "void")
    ELSE Return([s EXCEPT !.mFilteringEnabled = enabled], "void")

setFilteringEnabled(s, enabled) ==
    IF s.mAbandoned THEN Return(s, "void")
    ELSE LET needsRecompute == s.mFilteringEnabled # enabled
             s1 == [s EXCEPT !.mFilteringEnabled = enabled]
         IN  Return(IF needsRecompute /\ s1.mCurrentTextureImage # NULL
                    THEN computeCurrentTransformMatrixLocked(s1)
                    ELSE s1,
                    "void")

\* freeBufferLocked leaving mCurrentTexture at the freed slot.
freeBufferLockedKeepCurrentTexture(s, slotIndex) ==
    ConsumerBase_freeBufferLocked(
        DropReferences([s EXCEPT !.mEglSlots[slotIndex] = NULL]), slotIndex)

\* freeBufferLocked also dropping the current image of a freed current slot.
freeBufferLockedDropCurrentImage(s, slotIndex) ==
    LET s1 == IF slotIndex = s.mCurrentTexture
              THEN [s EXCEPT !.mCurrentTexture = INVALID_BUFFER_SLOT,
                             !.mCurrentTextureImage = NULL]
              ELSE s
    IN  ConsumerBase_freeBufferLocked(
            DropReferences([s1 EXCEPT !.mEglSlots[slotIndex] = NULL]), slotIndex)

freeBufferLocked(s, slotIndex) ==
    LET s1 == IF slotIndex = s.mCurrentTexture
              THEN [s EXCEPT !.mCurrentTexture = INVALID_BUFFER_SLOT]
              ELSE s
    IN  ConsumerBase_freeBufferLocked(
            DropReferences([s1 EXCEPT !.mEglSlots[slotIndex] = NULL]), slotIndex)

\* ConsumerBase::abandonLocked: every slot is freed through the virtual
\* freeBufferLocked and the queue is disconnected.
RECURSIVE FreeAllBuffers(_, _)
FreeAllBuffers(s, i) ==
    IF i \notin Slots THEN s ELSE FreeAllBuffers(freeBufferLocked(s, i), i + 1)
ConsumerBase_abandonLocked(s) ==
    Emit(FreeAllBuffers(s, 0), "consumerDisconnect", INVALID_BUFFER_SLOT, NULL)

abandonLocked(s) ==
    ConsumerBase_abandonLocked(DropReferences([s EXCEPT !.mCurrentTextureImage = NULL]))

\* ConsumerBase::abandon
abandon(s) ==
    IF s.mAbandoned THEN Return(s, "void")
    ELSE Return([abandonLocked(s) EXCEPT !.mAbandoned = TRUE], "void")

\* ConsumerBase::setConsumerUsageBits
ConsumerBase_setConsumerUsageBits(s, usage, queueStatus) ==
    IF s.mAbandoned THEN Return(s, NO_INIT)
    ELSE Return(Emit(s, "setConsumerUsageBits", usage, NULL), queueStatus)

\* usage | DEFAULT_USAGE_FLAGS, with DEFAULT_USAGE_FLAGS the usage bit 0.
DEFAULT_USAGE_FLAGS == 1
setConsumerUsageBits(s, usage, queueStatus) ==
    ConsumerBase_setConsumerUsageBits(
        s,
        IF HasBit(usage, DEFAULT_USAGE_FLAGS) THEN usage ELSE usage + DEFAULT_USAGE_FLAGS,
        queueStatus)

\* ConsumerBase::addReleaseFence takes mMutex and calls addReleaseFenceLocked.
ConsumerBase_addReleaseFence(s, env, slot, graphicBuffer) ==
    ConsumerBase_addReleaseFenceLocked(s, env, slot, graphicBuffer)

\* setReleaseFence run by a caller that no other thread interleaves with.
setReleaseFence(s, env, fenceValid) ==
    IF fenceValid /\ s.mCurrentTexture # INVALID_BUFFER_SLOT
    THEN IF s.mCurrentTextureImage = NULL THEN Crash(s)
         ELSE Return(ConsumerBase_addReleaseFence(
                         s, env, s.mCurrentTexture,
                         GraphicBufferOf(s, s.mCurrentTextureImage)),
                     "void")
    ELSE Return(s, "void")

\* The accessors, each a read under mMutex.
getTimestamp(s) == s.mCurrentTimestamp
getCurrentDataSpace(s) == s.mCurrentDataSpace
getFrameNumber(s) == s.mCurrentFrameNumber
getCurrentBuffer(s) ==
    [outSlot |-> s.mCurrentTexture,
     buffer |-> IF s.mCurrentTextureImage = NULL THEN NULL
                ELSE GraphicBufferOf(s, s.mCurrentTextureImage)]
getCurrentCrop(s) ==
    IF s.mCurrentScalingMode = NATIVE_WINDOW_SCALING_MODE_SCALE_CROP
    THEN scaleDownCrop(s.mCurrentCrop, s.mDefaultWidth, s.mDefaultHeight)
    ELSE s.mCurrentCrop
getCurrentTransform(s) == s.mCurrentTransform
getCurrentScalingMode(s) == s.mCurrentScalingMode
getCurrentFence(s) == s.mCurrentFence
getCurrentFenceTime(s) == s.mCurrentFenceTime
getTransformMatrix(s) == s.mCurrentTransformMatrix

\* ------------------------------------------------------- the state machine
InitBlc ==
    [mAbandoned |-> FALSE, crashed |-> FALSE,
     mSlots |-> [i \in Slots |-> NULL],
     mEglSlots |-> [i \in Slots |-> NULL],
     heap |-> [id \in ImageIds |-> NoObject],
     mCurrentCrop |-> EMPTY_RECT, mCurrentTransform |-> 0,
     mCurrentScalingMode |-> NATIVE_WINDOW_SCALING_MODE_FREEZE,
     mCurrentFence |-> NULL, mCurrentFenceTime |-> 0, mCurrentTimestamp |-> 0,
     mCurrentDataSpace |-> 0, mCurrentFrameNumber |-> 0,
     mDefaultWidth |-> 1, mDefaultHeight |-> 1, mFilteringEnabled |-> TRUE,
     mEglDisplay |-> EGL_NO_DISPLAY, mEglContext |-> EGL_NO_CONTEXT,
     mCurrentTexture |-> INVALID_BUFFER_SLOT, mCurrentTextureImage |-> NULL,
     mCurrentTransformMatrix |-> mtxIdentity,
     pendingRelease |-> [isPending |-> FALSE, currentTexture |-> INVALID_BUFFER_SLOT,
                         graphicBuffer |-> NULL],
     log |-> <<>>, ret |-> ""]

\* The record of a finished operation: the object before it ran, its
\* inputs, its status and the calls it made.
Call(op, pre, r, env, acq, val) ==
    [op |-> op, pre |-> pre, ret |-> r.ret, log |-> r.log, dpy |-> env.dpy,
     ctx |-> env.ctx, acq |-> acq.status, item |-> acq.item, val |-> val]
NoEnv == [dpy |-> EGL_NO_DISPLAY, ctx |-> EGL_NO_CONTEXT, fault |-> "none"]
NoAcq == [status |-> "", item |-> NoItem]
Done(r) == [r EXCEPT !.log = <<>>, !.ret = ""]
\* No operation is running: the caller is between two calls.
Idle == Call("idle", InitBlc, InitBlc, NoEnv, NoAcq, 0)

SrfIdle ==
    [pc |-> "idle", slot |-> INVALID_BUFFER_SLOT, buf |-> NULL,
     slotLoaded |-> FALSE, bufLoaded |-> FALSE, sameBinding |-> TRUE]
PureIdle == [fn |-> "none"]
NoFirstCall == [dpy |-> -1, ctx |-> -1, later |-> FALSE]

Init ==
    /\ ext \in [crop : BOOLEAN, prot : BOOLEAN, nativeFence : BOOLEAN]
    /\ blc = InitBlc
    /\ call = Call("BufferLayerConsumer", InitBlc,
                   Emit(InitBlc, "setConsumerUsageBits", DEFAULT_USAGE_FLAGS, NULL),
                   NoEnv, NoAcq, 0)
    /\ srf = SrfIdle
    /\ pure = PureIdle
    /\ firstCall = NoFirstCall

\* The caller's current EGL display and context.
EglStates == [dpy : {EGL_NO_DISPLAY} \cup Displays, ctx : {EGL_NO_CONTEXT} \cup Contexts]
Faults == {"none", "eglCreateImage", "eglCreateSync", "dupNativeFence",
           "addReleaseFence", "releaseBuffer", "fenceDup", "fenceCreateSync",
           "fenceWait"}

\* The buffers some slot or some EglImage still refers to.
LiveBuffers(s) ==
    ({s.mSlots[i] : i \in Slots} \cup {s.heap[id].mGraphicBuffer : id \in ImageIds})
    \ {NULL}
\* What the queue may answer to acquireBuffer: no buffer, an error, or an
\* item for a slot.  The item carries the graphic buffer when the slot's
\* buffer was not acquired before (always for an empty slot).
AcquireResults(s) ==
    {[status |-> NO_BUFFER_AVAILABLE, item |-> NoItem],
     [status |-> "ACQUIRE_ERROR", item |-> NoItem]}
    \cup {[status |-> NO_ERROR, item |-> MakeItem(slot, buf, f)] :
            slot \in Slots, buf \in {NULL} \cup Buffers, f \in Frames}
AcquireAllowed(s, acq) ==
    acq.status = NO_ERROR =>
        IF acq.item.mGraphicBuffer = NULL THEN s.mSlots[acq.item.mSlot] # NULL
        ELSE acq.item.mGraphicBuffer \notin LiveBuffers(s)

UpdateTexImageFrom(eglStates) ==
    /\ call = Idle /\ ~blc.crashed
    /\ \E e \in eglStates :
         LET env0 == [dpy |-> e.dpy, ctx |-> e.ctx, fault |-> "none"]
         IN  IF blc.mAbandoned \/ checkAndUpdateEglStateLocked(blc, env0).ret # NO_ERROR
             THEN \E r \in {updateTexImage(blc, env0, NoAcq)} :
                    /\ blc' = Done(r)
                    /\ call' = Call("updateTexImage", blc, r, env0, NoAcq, 0)
             ELSE \E acq \in {a \in AcquireResults(blc) : AcquireAllowed(blc, a)} :
                    \E fault \in (IF acq.status = NO_ERROR THEN Faults ELSE {"none"}) :
                      \E r \in {updateTexImage(blc, [env0 EXCEPT !.fault = fault], acq)} :
                        /\ blc' = Done(r)
                        /\ call' = Call("updateTexImage", blc, r, env0, acq, 0)
    /\ UNCHANGED <<ext, srf, pure>>

\* updateTexImage by a caller whose EGL state is either all current
\* (display 1, context 1) or lacks the display, the context or both.
UpdateTexImage ==
    /\ UpdateTexImageFrom([dpy : {EGL_NO_DISPLAY, 1}, ctx : {EGL_NO_CONTEXT, 1}])
    /\ UNCHANGED firstCall

\* updateTexImage by a caller with any EGL state; the first call's state
\* is remembered, and whether a later call was made.
UpdateTexImageAnyEgl ==
    /\ UpdateTexImageFrom(EglStates)
    /\ firstCall' = IF blc.mAbandoned THEN firstCall
                    ELSE IF firstCall = NoFirstCall
                    THEN [dpy |-> call'.dpy, ctx |-> call'.ctx, later |-> FALSE]
                    ELSE [firstCall EXCEPT !.later = TRUE]

\* The operation returns to its caller.
ReturnToCaller ==
    /\ call # Idle
    /\ call' = Idle
    /\ UNCHANGED <<ext, blc, srf, pure, firstCall>>

\* The queue tells the consumer that a slot's buffer was freed
\* (onBuffersReleased calls freeBufferLocked).
FreeBuffer ==
    /\ call = Idle /\ ~blc.crashed /\ ~blc.mAbandoned
    /\ \E slotIndex \in Slots :
         LET r == Return(freeBufferLocked(blc, slotIndex), "void")
         IN  /\ blc' = Done(r)
             /\ call' = Call("freeBuffer", blc, r, NoEnv, NoAcq, slotIndex)
    /\ UNCHANGED <<ext, srf, pure, firstCall>>

Abandon ==
    /\ call = Idle /\ ~blc.crashed
    /\ LET r == abandon(blc)
       IN  /\ blc' = Done(r)
           /\ call' = Call("abandon", blc, r, NoEnv, NoAcq, 0)
    /\ UNCHANGED <<ext, srf, pure, firstCall>>

QueueStatuses == {NO_ERROR, "BAD_VALUE"}

SetDefaultBufferSize ==
    /\ call = Idle /\ ~blc.crashed
    /\ \E w \in 1 .. 2, h \in 1 .. 1, qs \in QueueStatuses :
         LET r == setDefaultBufferSize(blc, w, h, qs)
         IN  /\ blc' = Done(r)
             /\ call' = Call("setDefaultBufferSize", blc, r, NoEnv, NoAcq, <<w, h>>)
    /\ UNCHANGED <<ext, srf, pure, firstCall>>

SetFilteringEnabled ==
    /\ call = Idle /\ ~blc.crashed
    /\ \E enabled \in BOOLEAN :
         LET r == setFilteringEnabled(blc, enabled)
         IN  /\ blc' = Done(r)
             /\ call' = Call("setFilteringEnabled", blc, r, NoEnv, NoAcq, enabled)
    /\ UNCHANGED <<ext, srf, pure, firstCall>>

SetReleaseFence ==
    /\ call = Idle /\ ~blc.crashed
    /\ \E fenceValid \in BOOLEAN, fault \in {"none", "addReleaseFence"} :
         LET r == setReleaseFence(blc, [NoEnv EXCEPT !.fault = fault], fenceValid)
         IN  /\ blc' = Done(r)
             /\ call' = Call("setReleaseFence", blc, r, NoEnv, NoAcq, fenceValid)
    /\ UNCHANGED <<ext, srf, pure, firstCall>>

SetConsumerUsageBits ==
    /\ call = Idle /\ ~blc.crashed
    /\ \E usage \in 0 .. 3, qs \in QueueStatuses :
         LET r == setConsumerUsageBits(blc, usage, qs)
         IN  /\ blc' = Done(r)
             /\ call' = Call("setConsumerUsageBits", blc, r, NoEnv, NoAcq, usage)
    /\ UNCHANGED <<ext, srf, pure, firstCall>>

\* What each accessor returns in state s.
AccessorValues(s) ==
    [getTimestamp |-> getTimestamp(s),
     getCurrentDataSpace |-> getCurrentDataSpace(s),
     getFrameNumber |-> getFrameNumber(s),
     getCurrentBuffer |-> getCurrentBuffer(s),
     getCurrentCrop |-> getCurrentCrop(s),
     getCurrentTransform |-> getCurrentTransform(s),
     getCurrentScalingMode |-> getCurrentScalingMode(s),
     getCurrentFence |-> getCurrentFence(s),
     getCurrentFenceTime |-> getCurrentFenceTime(s),
     getTransformMatrix |-> getTransformMatrix(s)]

\* A call of the accessors: none of them checks mAbandoned or changes a field.
Accessor ==
    /\ call = Idle /\ ~blc.crashed
    /\ call' = Call("accessors", blc, Return(blc, "value"), NoEnv, NoAcq, AccessorValues(blc))
    /\ UNCHANGED <<ext, blc, srf, pure, firstCall>>

Next ==
    \/ UpdateTexImage
    \/ FreeBuffer
    \/ Abandon
    \/ SetDefaultBufferSize
    \/ SetFilteringEnabled
    \/ SetReleaseFence
    \/ SetConsumerUsageBits
    \/ Accessor
    \/ ReturnToCaller

Spec == Init /\ [][Next]_vars

\* ------------------------------------- setReleaseFence on a second thread
\* setReleaseFence takes no lock: its reads of mCurrentTexture and
\* mCurrentTextureImage interleave with the operations that hold mMutex.
\* Those operations are atomic, so the reads fall between two of them
\* (call = Idle).
\* The test `fence->isValid() && mCurrentTexture != INVALID_BUFFER_SLOT`.
SrfCheck ==
    /\ call = Idle /\ srf.pc = "idle" /\ ~blc.crashed
    /\ \E fenceValid \in BOOLEAN :
         srf' = IF fenceValid /\ blc.mCurrentTexture # INVALID_BUFFER_SLOT
                THEN [SrfIdle EXCEPT !.pc = "args", !.slot = blc.mCurrentTexture]
                ELSE [SrfIdle EXCEPT !.pc = "returned"]
    /\ UNCHANGED <<ext, blc, call, pure, firstCall>>

\* The first argument, when mCurrentTexture is read again for it (a build
\* may also reuse the value the test read).
SrfLoadSlot ==
    /\ call = Idle /\ srf.pc = "args" /\ ~srf.slotLoaded /\ ~blc.crashed
    /\ srf' = [srf EXCEPT
                 !.slot = blc.mCurrentTexture,
                 !.slotLoaded = TRUE,
                 !.sameBinding =
                     IF srf.bufLoaded
                     THEN /\ blc.mCurrentTexture # INVALID_BUFFER_SLOT
                          /\ blc.mCurrentTextureImage # NULL
                          /\ GraphicBufferOf(blc, blc.mCurrentTextureImage) = srf.buf
                     ELSE TRUE]
    /\ UNCHANGED <<ext, blc, call, pure, firstCall>>

\* The second argument, mCurrentTextureImage->graphicBuffer(): a null
\* mCurrentTextureImage is dereferenced.
SrfLoadImage ==
    /\ call = Idle /\ srf.pc = "args" /\ ~srf.bufLoaded /\ ~blc.crashed
    /\ IF blc.mCurrentTextureImage = NULL
       THEN /\ srf' = [srf EXCEPT !.pc = "crashed"]
            /\ blc' = [blc EXCEPT !.crashed = TRUE]
       ELSE /\ srf' = [srf EXCEPT
                         !.buf = GraphicBufferOf(blc, blc.mCurrentTextureImage),
                         !.bufLoaded = TRUE,
                         !.sameBinding = (blc.mCurrentTexture = srf.slot)]
            /\ UNCHANGED blc
    /\ UNCHANGED <<ext, call, pure, firstCall>>

\* ConsumerBase::addReleaseFence(slot, buffer, fence), which takes mMutex.
SrfAddReleaseFence ==
    /\ call = Idle /\ srf.pc = "args" /\ srf.bufLoaded /\ ~blc.crashed
    /\ srf' = [srf EXCEPT !.pc = "called"]
    /\ UNCHANGED <<ext, blc, call, pure, firstCall>>

SrfReturn ==
    /\ call = Idle /\ srf.pc \in {"called", "returned"}
    /\ srf' = SrfIdle
    /\ UNCHANGED <<ext, blc, call, pure, firstCall>>

InitConcurrent ==
    /\ Init
    /\ ext = [crop |-> TRUE, prot |-> TRUE, nativeFence |-> TRUE]

NextConcurrent ==
    \/ UpdateTexImage
    \/ FreeBuffer
    \/ Abandon
    \/ ReturnToCaller
    \/ SrfCheck
    \/ SrfLoadSlot
    \/ SrfLoadImage
    \/ SrfAddReleaseFence
    \/ SrfReturn

\* updateTexImage, slot frees and abandon on one thread, setReleaseFence
\* on another.
SpecConcurrent == InitConcurrent /\ [][NextConcurrent]_vars

\* ------------------------------------------- callers with any EGL state
InitEgl ==
    /\ Init
    /\ ext = [crop |-> TRUE, prot |-> TRUE, nativeFence |-> TRUE]

NextEgl ==
    \/ UpdateTexImageAnyEgl
    \/ FreeBuffer
    \/ Abandon
    \/ ReturnToCaller

SpecEgl == InitEgl /\ [][NextEgl]_vars

\* ------------------------------------ callers passing a PendingRelease
\* A default-constructed PendingRelease, and one left over from an earlier
\* use.
NoPendingRelease ==
    [isPending |-> FALSE, currentTexture |-> INVALID_BUFFER_SLOT, graphicBuffer |-> NULL]
PendingInputs ==
    {NoPendingRelease, [isPending |-> TRUE, currentTexture |-> 1, graphicBuffer |-> 2]}

\* A caller inside the class that holds mMutex, has acquired an item and
\* hands it to updateAndReleaseLocked together with a PendingRelease.  The
\* PendingRelease is the caller's: what it held before and after the call is
\* kept in the record of the call.
UpdateAndReleasePending ==
    /\ call = Idle /\ ~blc.crashed /\ ~blc.mAbandoned
    /\ \E e \in [dpy : {EGL_NO_DISPLAY, 1}, ctx : {1}], fault \in Faults,
          p0 \in PendingInputs :
         \E acq \in {a \in AcquireResults(blc) :
                        a.status = NO_ERROR /\ AcquireAllowed(blc, a)} :
           LET env0 == [dpy |-> e.dpy, ctx |-> e.ctx, fault |-> "none"]
           IN  \E r \in {updateAndReleaseLocked(
                              acquireBufferLocked([blc EXCEPT !.pendingRelease = p0], acq),
                              [env0 EXCEPT !.fault = fault], acq.item, TRUE)} :
                 /\ blc' = [Done(r) EXCEPT !.pendingRelease = NoPendingRelease]
                 /\ call' = Call("updateAndReleaseLocked", blc, r, env0, acq,
                                 [in |-> p0, out |-> r.pendingRelease])
    /\ UNCHANGED <<ext, srf, pure, firstCall>>

InitPending ==
    /\ Init
    /\ ext.crop /\ ext.prot

NextPending ==
    \/ UpdateTexImage
    \/ UpdateAndReleasePending
    \/ FreeBuffer
    \/ ReturnToCaller

SpecPending == InitPending /\ [][NextPending]_vars

\* --------------------------------------------- createImage on its own
CropInputs ==
    {INVALID_RECT, EMPTY_RECT, MakeRect(0, 0, 2, 2), MakeRect(0, 0, 4, 4),
     MakeRect(1, 1, 3, 2), MakeRect(1, 0, 2, 2)}

CreateImage ==
    /\ \E graphicBuffer \in Buffers, crop \in CropInputs, eglOk \in BOOLEAN :
         pure' = [fn |-> "createImage", graphicBuffer |-> graphicBuffer,
                  crop |-> crop, eglOk |-> eglOk,
                  attrs |-> createImageAttrs(graphicBuffer, crop),
                  image |-> createImage(eglOk, graphicBuffer, crop)]
    /\ UNCHANGED <<ext, blc, call, srf, firstCall>>

SpecCreateImage == Init /\ [][CreateImage]_vars

\* ------------------------------------- computeTransformMatrix on its own
\* One buffer of every pixel format, in both sizes.
MatrixBuffers == 1 .. Len(PixelFormats)
TransformBits == 0 .. 7

ComputeTransformMatrix ==
    /\ pure = PureIdle
    /\ \E buf \in MatrixBuffers, cropRect \in CropInputs,
          transform \in TransformBits, filtering \in BOOLEAN :
         pure' = [fn |-> "computeTransformMatrix", buf |-> buf,
                  cropRect |-> cropRect, transform |-> transform,
                  filtering |-> filtering,
                  outTransform |->
                      computeTransformMatrix(buf, cropRect, transform, filtering)]
    /\ UNCHANGED <<ext, blc, call, srf, firstCall>>

SpecMatrix == Init /\ [][ComputeTransformMatrix]_vars

\* --------------------------------------------- scaleDownCrop on its own
\* Non-empty crops up to 5 x 5 at and around the origin, targets up to 5 x 5.
ScaleCrops ==
    {MakeRect(l, tp, l + w, tp + h) :
        l \in {-1, 0, 2}, tp \in {0, 1}, w \in 1 .. 5, h \in 1 .. 5}

ScaleDownCrop ==
    /\ pure = PureIdle
    /\ \E crop \in ScaleCrops, bufferWidth \in 1 .. 5, bufferHeight \in 1 .. 5 :
         pure' = [fn |-> "scaleDownCrop", crop |-> crop,
                  bufferWidth |-> bufferWidth, bufferHeight |-> bufferHeight,
                  outCrop |-> scaleDownCrop(crop, bufferWidth, bufferHeight)]
    /\ UNCHANGED <<ext, blc, call, srf, firstCall>>

SpecScaleDownCrop == Init /\ [][ScaleDownCrop]_vars

\* -------------------------------------------- createIfNeeded on its own
\* One EglImage object, constructed for a buffer by the first step and then
\* handed to createIfNeeded again and again with any display and crop; the
\* object sits in cell 1 of the heap of an otherwise fresh consumer.
CreateIfNeeded ==
    /\ pure.fn \in {"none", "createIfNeeded"}
    /\ \E graphicBuffer \in Buffers, eglDisplay \in Displays, cropRect \in CropInputs,
          fault \in {"none", "eglCreateImage"} :
         LET before == IF pure.fn = "none" THEN NewEglImage(graphicBuffer)
                       ELSE pure.after
             r == createIfNeeded([InitBlc EXCEPT !.heap[1] = before],
                                 [NoEnv EXCEPT !.fault = fault], 1, eglDisplay, cropRect)
         IN  pure' = [fn |-> "createIfNeeded", before |-> before,
                      eglDisplay |-> eglDisplay, cropRect |-> cropRect,
                      after |-> r.heap[1], ret |-> r.ret, log |-> r.log]
    /\ UNCHANGED <<ext, blc, call, srf, firstCall>>

SpecCreateIfNeeded == Init /\ [][CreateIfNeeded]_vars

\* ============================================================ properties
\* The fields the specification calls CurrentBinding.
CurrentBinding(s) ==
    [slot |-> s.mCurrentTexture, image |-> s.mCurrentTextureImage,
     crop |-> s.mCurrentCrop, transform |-> s.mCurrentTransform,
     scalingMode |-> s.mCurrentScalingMode, timestamp |-> s.mCurrentTimestamp,
     dataSpace |-> s.mCurrentDataSpace, fence |-> s.mCurrentFence,
     fenceTime |-> s.mCurrentFenceTime, frameNumber |-> s.mCurrentFrameNumber,
     matrix |-> s.mCurrentTransformMatrix]
\* Whether the EglImage CurrentBinding refers to holds an EGLImageKHR.
ImageHandleValid(s) ==
    s.mCurrentTextureImage # NULL /\ s.heap[s.mCurrentTextureImage].mEglImage.valid
\* The calls on the queue among the calls an operation made.
QueueEvents ==
    {"acquireBuffer", "releaseBuffer", "addReleaseFence", "setDefaultBufferSize",
     "setConsumerUsageBits", "consumerDisconnect"}
QueueCalls == Events(call.log) \cap QueueEvents
PublicOperations ==
    {"updateTexImage", "setDefaultBufferSize", "setFilteringEnabled",
     "setReleaseFence", "setConsumerUsageBits", "accessors"}
StatusOperations == {"updateTexImage", "setDefaultBufferSize", "setConsumerUsageBits"}
Updated == call.op = "updateTexImage"
Acquired == Updated /\ call.acq = NO_ERROR
Committed == Updated /\ "commit" \in Events(call.log)
AfterAbandon == call.op \in PublicOperations /\ call.pre.mAbandoned

\* C1 as the specification states it: after abandonment every public
\* operation returns NO_INIT (Uninitialized) and calls nothing on the queue.
C1_EveryOperationReturnsNoInit ==
    AfterAbandon => (call.ret = NO_INIT /\ QueueCalls = {})

\* C1, amended: after abandonment updateTexImage, setDefaultBufferSize and
\* setConsumerUsageBits return NO_INIT, setFilteringEnabled and
\* setReleaseFence return nothing, the accessors return the stored values,
\* and none of them calls the queue or changes the object.
C1_AbandonedShortCircuits ==
    AfterAbandon =>
        /\ QueueCalls = {}
        /\ blc = call.pre
        /\ call.op \in StatusOperations => call.ret = NO_INIT
        /\ call.op \in {"setFilteringEnabled", "setReleaseFence"} => call.ret = "void"
        /\ call.op = "accessors" => call.val = AccessorValues(call.pre)

C1_Witness ==
    /\ AfterAbandon /\ call.op = "setDefaultBufferSize" /\ call.ret = NO_INIT
    /\ call.pre.mCurrentFrameNumber > 0

\* C2: when acquire answers NO_BUFFER_AVAILABLE, updateTexImage returns
\* NO_ERROR, every CurrentBinding field is as before the call, no buffer is
\* released and glBindTexture was called.
C2_NoBufferAvailableRebinds ==
    (Updated /\ call.acq = NO_BUFFER_AVAILABLE) =>
        /\ call.ret = NO_ERROR
        /\ CurrentBinding(blc) = CurrentBinding(call.pre)
        /\ "releaseBuffer" \notin Events(call.log)
        /\ "glBindTexture" \in Events(call.log)

C2_Witness ==
    /\ Updated /\ call.acq = NO_BUFFER_AVAILABLE /\ call.ret = NO_ERROR
    /\ call.pre.mCurrentTexture # INVALID_BUFFER_SLOT

\* The item fields a committed binding carries, for the frame it shows.
FieldsOfOneItem(s) ==
    \E f \in Frames :
        LET item == MakeItem(s.mCurrentTexture, NULL, f)
        IN  /\ s.mCurrentCrop = item.mCrop
            /\ s.mCurrentTransform = item.mTransform
            /\ s.mCurrentScalingMode = item.mScalingMode
            /\ s.mCurrentTimestamp = item.mTimestamp
            /\ s.mCurrentDataSpace = item.mDataSpace
            /\ s.mCurrentFence = item.mFence
            /\ s.mCurrentFenceTime = item.mFenceTime
            /\ s.mCurrentFrameNumber = item.mFrameNumber

\* C3: after a successful updateTexImage that acquired an item, the current
\* slot is the item's, the current image is that slot's cached image, and
\* crop, transform, scaling mode, timestamp, dataspace, fence, fence time
\* and frame number are the item's; in every state between two operations
\* the fields of a binding all come from one item.
C3_CommitReplacesAllFields ==
    /\ (Acquired /\ call.ret = NO_ERROR) =>
          /\ blc.mCurrentTexture = call.item.mSlot
          /\ blc.mCurrentTextureImage = blc.mEglSlots[call.item.mSlot]
          /\ blc.mCurrentTextureImage # NULL
          /\ blc.mCurrentCrop = call.item.mCrop
          /\ blc.mCurrentTransform = call.item.mTransform
          /\ blc.mCurrentScalingMode = call.item.mScalingMode
          /\ blc.mCurrentTimestamp = call.item.mTimestamp
          /\ blc.mCurrentDataSpace = call.item.mDataSpace
          /\ blc.mCurrentFence = call.item.mFence
          /\ blc.mCurrentFenceTime = call.item.mFenceTime
          /\ blc.mCurrentFrameNumber = call.item.mFrameNumber
    /\ blc.mCurrentFrameNumber # 0 => FieldsOfOneItem(blc)

C3_Witness ==
    /\ Acquired /\ call.ret = NO_ERROR
    /\ call.pre.mCurrentFrameNumber \notin {0, call.item.mFrameNumber}
    /\ call.pre.mCurrentTexture \notin {INVALID_BUFFER_SLOT, call.item.mSlot}

\* C4 as the specification states it: an updateTexImage that commits the
\* acquired buffer has bound the buffer's image to the texture
\* (glEGLImageTargetTexture2DOES) and has entered the wait on the buffer's
\* fence (doGLFenceWaitLocked) before it returns.
C4_CommitBindsAndWaits ==
    Committed =>
        /\ "glEGLImageTargetTexture2DOES" \in Events(call.log)
        /\ "doGLFenceWait" \in Events(call.log)

ReleaseSyncEvents ==
    {"syncForRelease", "eglCreateSyncKHR", "glFlush", "eglDupNativeFenceFDANDROID",
     "addReleaseFence"}

\* C6: an updateTexImage that acquires the slot that is already current does
\* not run syncForReleaseLocked; the step runs only when the acquired slot
\* differs from the current one.
C6_SameSlotSkipsReleaseSync ==
    Acquired =>
        /\ call.item.mSlot = call.pre.mCurrentTexture =>
              Events(call.log) \cap ReleaseSyncEvents = {}
        /\ Events(call.log) \cap ReleaseSyncEvents # {} =>
              call.item.mSlot # call.pre.mCurrentTexture

C6_Witness ==
    /\ Acquired /\ call.ret = NO_ERROR /\ useNativeFenceSync
    /\ call.item.mSlot = call.pre.mCurrentTexture
    /\ call.pre.mCurrentFrameNumber # call.item.mFrameNumber

\* An updateTexImage the EGL state check turned down.
Rejected ==
    /\ Updated /\ ~call.pre.mAbandoned
    /\ call.ret = INVALID_OPERATION /\ "acquireBuffer" \notin Events(call.log)
\* The caller's display or context is absent or differs from the given one.
Mismatch(dpy, ctx) ==
    \/ call.dpy = EGL_NO_DISPLAY \/ call.ctx = EGL_NO_CONTEXT
    \/ call.dpy # dpy \/ call.ctx # ctx

\* C7 as the specification states it: the first call's display and context
\* are the baseline; a later call that differs from it in either, or has
\* either absent, is turned down with CurrentBinding unchanged, and a later
\* call with the baseline's display and context is not turned down.
C7_FirstCallIsBaseline ==
    (Updated /\ ~call.pre.mAbandoned /\ firstCall.later) =>
        /\ Mismatch(firstCall.dpy, firstCall.ctx) =>
              (Rejected /\ CurrentBinding(blc) = CurrentBinding(call.pre))
        /\ (~Mismatch(firstCall.dpy, firstCall.ctx)) => ~Rejected

\* C7, amended: every call stores the caller's display (context) as the
\* baseline when the stored display (context) is absent, also when the call
\* is then turned down; a stored one never changes.  A call is turned down,
\* with no buffer acquired and CurrentBinding unchanged, exactly when its
\* display or context is absent or differs from a stored one; a first call
\* with both present fixes the baseline of every later call.
C7_AbsentBaselineIsAdopted ==
    (Updated /\ ~call.pre.mAbandoned) =>
        /\ blc.mEglDisplay = IF call.pre.mEglDisplay = EGL_NO_DISPLAY
                             THEN call.dpy ELSE call.pre.mEglDisplay
        /\ blc.mEglContext = IF call.pre.mEglContext = EGL_NO_CONTEXT
                             THEN call.ctx ELSE call.pre.mEglContext
        /\ Rejected <=> Mismatch(blc.mEglDisplay, blc.mEglContext)
        /\ Rejected => CurrentBinding(blc) = CurrentBinding(call.pre)
        /\ (firstCall.dpy # EGL_NO_DISPLAY /\ firstCall.ctx # EGL_NO_CONTEXT) =>
              (blc.mEglDisplay = firstCall.dpy /\ blc.mEglContext = firstCall.ctx)

C7_Witness ==
    /\ Rejected /\ firstCall.later
    /\ call.dpy \notin {EGL_NO_DISPLAY, call.pre.mEglDisplay}
    /\ call.pre.mEglDisplay # EGL_NO_DISPLAY
    /\ call.pre.mCurrentTexture # INVALID_BUFFER_SLOT

\* C8 as the specification states it: an updateTexImage that fails without
\* committing leaves every CurrentBinding field, and whether the current
\* image holds an EGLImageKHR, as they were before the call.
C8_FailureBeforeCommitIsAtomic ==
    (Updated /\ call.ret # NO_ERROR /\ ~Committed) =>
        /\ CurrentBinding(blc) = CurrentBinding(call.pre)
        /\ ImageHandleValid(blc) = ImageHandleValid(call.pre)

\* C9 as the specification states it: the slot and the buffer that
\* setReleaseFence hands to addReleaseFence are those of one CurrentBinding,
\* and the current image it dereferences is not null.
C9_FencePairOfOneBinding ==
    /\ srf.pc = "called" => srf.sameBinding
    /\ srf.pc # "crashed"

\* Whether the created EGLImageKHR carries EGL_PROTECTED_CONTENT_EXT.
CarriesProtected(image) ==
    /\ EGL_PROTECTED_CONTENT_EXT \in DOMAIN image.attribs
    /\ image.attribs[EGL_PROTECTED_CONTENT_EXT] = EGL_TRUE
\* The layout of the attribute array: 1 crop attached, 2 crop invalid,
\* 3 crop valid and not croppable.
AttrLayout(crop) ==
    IF ~RectIsValid(crop) THEN 2 ELSE IF isEglImageCroppable(crop) THEN 1 ELSE 3

\* C10: the image createImage creates carries the protected content
\* attribute exactly when the buffer's usage asks for protection and
\* hasEglProtectedContent holds, in each of the three attribute layouts; the
\* crop attributes are present in the first layout only.
C10_ProtectedIffUsageAndProbe ==
    (pure.fn = "createImage" /\ pure.eglOk) =>
        /\ pure.image.valid
        /\ CarriesProtected(pure.image) <=>
              (BufUsageProtected(pure.graphicBuffer) /\ hasEglProtectedContent)
        /\ EGL_IMAGE_CROP_LEFT_ANDROID \in DOMAIN pure.image.attribs <=>
              AttrLayout(pure.crop) = 1

C10_Witness ==
    /\ pure.fn = "createImage" /\ pure.eglOk
    /\ AttrLayout(pure.crop) = 3 /\ hasEglAndroidImageCrop
    /\ CarriesProtected(pure.image)

\* ---- computeTransformMatrix
MatrixComputed == pure.fn = "computeTransformMatrix"
\* The crop stage of the applied computation: the identity for an empty crop.
CropStage ==
    IF RectIsEmpty(pure.cropRect) THEN mtxIdentity
    ELSE CropMatrix(BufWidth(pure.buf), BufHeight(pure.buf),
                    BufPixelFormat(pure.buf), pure.cropRect, pure.filtering)
\* m when the bit is set in the applied transform, the identity otherwise.
Factor(bit, m) == IF HasBit(pure.transform, bit) THEN m ELSE mtxIdentity

\* C11 as the specification states it: the result of computeTransformMatrix
\* is (vertical flip) . (crop stage) . (orientation), the orientation being
\* built from the identity by multiplying flip-H, then flip-V, then rot-90 on
\* the left, for each of the 8 transform bitmasks.
C11_OrientationLeftMultiplied ==
    MatrixComputed =>
        pure.outTransform =
            MatMul(mtxFlipV, MatMul(CropStage, OrientationLeftMultiply(pure.transform)))

\* C11, amended: the result is the product
\* (vertical flip) . (crop stage) . H . V . R, where H, V and R are flip-H,
\* flip-V and rot-90 for the bits that are set and the identity otherwise:
\* each orientation matrix is multiplied on the right of the running
\* transform.  The two orders give the same matrix for every bitmask except
\* rot-90 with exactly one flip.
C11_OrientationRightMultiplied ==
    MatrixComputed =>
        /\ pure.outTransform =
               MatMul(mtxFlipV,
                 MatMul(CropStage,
                   MatMul(Factor(NATIVE_WINDOW_TRANSFORM_FLIP_H, mtxFlipH),
                     MatMul(Factor(NATIVE_WINDOW_TRANSFORM_FLIP_V, mtxFlipV),
                            Factor(NATIVE_WINDOW_TRANSFORM_ROT_90, mtxRot90)))))
        /\ pure.transform \notin
                 {NATIVE_WINDOW_TRANSFORM_ROT_90 + NATIVE_WINDOW_TRANSFORM_FLIP_H,
                  NATIVE_WINDOW_TRANSFORM_ROT_90 + NATIVE_WINDOW_TRANSFORM_FLIP_V}
             => pure.outTransform =
                  MatMul(mtxFlipV,
                         MatMul(CropStage, OrientationLeftMultiply(pure.transform)))

C11_Witness ==
    /\ MatrixComputed
    /\ pure.transform =
          NATIVE_WINDOW_TRANSFORM_ROT_90 + NATIVE_WINDOW_TRANSFORM_FLIP_H
    /\ ~RectIsEmpty(pure.cropRect)
    /\ CropStage # mtxIdentity
    /\ pure.outTransform #
          MatMul(mtxFlipV, MatMul(CropStage, OrientationLeftMultiply(pure.transform)))

\* Twice the shrink s of an edge: 0 with filtering off, half a texel for the
\* seven formats without subsampling, a whole texel for every other format.
ExpectedShrink2 ==
    IF ~pure.filtering THEN 0
    ELSE IF BufPixelFormat(pure.buf) \in
              {"RGBA_8888", "RGBX_8888", "RGBA_FP16", "RGBA_1010102", "RGB_888",
               "RGB_565", "BGRA_8888"} THEN 1
    ELSE 2
\* The matrix scaling and offsetting one axis (1 = x, 2 = y) for a crop of
\* the given extent starting at start, in a buffer of extent bufferExtent:
\* offset (start + s) / bufferExtent and scale (extent - 2s) / bufferExtent
\* when the crop is strictly smaller than the buffer, the identity otherwise.
AxisMatrix(axis, start, extent, bufferExtent) ==
    LET D == 2 * bufferExtent
        scale == IF extent < bufferExtent THEN 2 * extent - 2 * ExpectedShrink2 ELSE D
        offset == IF extent < bufferExtent THEN 2 * start + ExpectedShrink2 ELSE 0
    IN  IF axis = 1
        THEN Mat(<<scale, 0, 0, 0, 0, D, 0, 0, 0, 0, D, 0, offset, 0, 0, D>>, D)
        ELSE Mat(<<D, 0, 0, 0, 0, scale, 0, 0, 0, 0, D, 0, 0, offset, 0, D>>, D)
ExpectedCropStage ==
    MatMul(AxisMatrix(1, pure.cropRect.left, RectWidth(pure.cropRect),
                      BufWidth(pure.buf)),
           AxisMatrix(2, BufHeight(pure.buf) - pure.cropRect.bottom,
                      RectHeight(pure.cropRect), BufHeight(pure.buf)))
FullBufferCrop ==
    pure.cropRect = MakeRect(0, 0, BufWidth(pure.buf), BufHeight(pure.buf))

\* C12: for a non-empty crop the crop stage of computeTransformMatrix scales
\* and offsets each axis on its own: scale 1 and offset 0 when the crop
\* extent is not strictly smaller than the buffer extent, otherwise offset
\* (start + s) / bufferExtent and scale (cropExtent - 2s) / bufferExtent, the
\* vertical start being bufferHeight - crop.bottom, with s = 0 when filtering
\* is off, 0.5 for the seven formats without subsampling and 1.0 for every
\* other format.  A crop equal to the buffer bounds gives the identity crop
\* stage for either filtering value.
C12_CropStagePerAxis ==
    (MatrixComputed /\ ~RectIsEmpty(pure.cropRect)) =>
        /\ pure.outTransform =
               MatMul(mtxFlipV, MatMul(ExpectedCropStage, Orientation(pure.transform)))
        /\ FullBufferCrop =>
               /\ ExpectedCropStage = mtxIdentity
               /\ pure.outTransform = MatMul(mtxFlipV, Orientation(pure.transform))

C12_Witness ==
    /\ MatrixComputed /\ pure.filtering
    /\ BufPixelFormat(pure.buf) = "YV12"
    /\ RectWidth(pure.cropRect) < BufWidth(pure.buf)
    /\ RectHeight(pure.cropRect) = 1 /\ BufHeight(pure.buf) = 2
    /\ pure.cropRect.bottom # BufHeight(pure.buf) - pure.cropRect.top
    /\ pure.transform = 0

\* ---- scaleDownCrop
CropScaled == pure.fn = "scaleDownCrop"
\* The crop is wider (taller) than the target ratio.
TooWide ==
    RectWidth(pure.crop) * pure.bufferHeight > RectHeight(pure.crop) * pure.bufferWidth
TooTall ==
    RectWidth(pure.crop) * pure.bufferHeight < RectHeight(pure.crop) * pure.bufferWidth
HorizontalUntouched ==
    pure.outCrop.left = pure.crop.left /\ pure.outCrop.right = pure.crop.right
VerticalUntouched ==
    pure.outCrop.top = pure.crop.top /\ pure.outCrop.bottom = pure.crop.bottom
\* The output's extent is reduced to newExtent, with the delta split
\* floor(delta / 2) on the leading edge and the rest on the trailing edge.
SplitAs(extent, newExtent, leading, trailing) ==
    /\ leading = (extent - newExtent) \div 2
    /\ trailing = (extent - newExtent) - (extent - newExtent) \div 2

\* C13: for a non-empty crop and a positive target size, scaleDownCrop
\* returns a rect inside the crop that changes at most one axis; the
\* oversized dimension becomes floor(other * target ratio), the shrink being
\* split floor(delta / 2) on the left or top edge and delta - floor(delta / 2)
\* on the right or bottom edge; a crop at the target ratio is returned as is.
C13_ScaleDownCrop ==
    CropScaled =>
        /\ pure.outCrop.left >= pure.crop.left /\ pure.outCrop.top >= pure.crop.top
        /\ pure.outCrop.right <= pure.crop.right
        /\ pure.outCrop.bottom <= pure.crop.bottom
        /\ pure.outCrop.left <= pure.outCrop.right
        /\ pure.outCrop.top <= pure.outCrop.bottom
        /\ HorizontalUntouched \/ VerticalUntouched
        /\ TooWide =>
              /\ VerticalUntouched
              /\ SplitAs(RectWidth(pure.crop),
                         (RectHeight(pure.crop) * pure.bufferWidth) \div pure.bufferHeight,
                         pure.outCrop.left - pure.crop.left,
                         pure.crop.right - pure.outCrop.right)
        /\ TooTall =>
              /\ HorizontalUntouched
              /\ SplitAs(RectHeight(pure.crop),
                         (RectWidth(pure.crop) * pure.bufferHeight) \div pure.bufferWidth,
                         pure.outCrop.top - pure.crop.top,
                         pure.crop.bottom - pure.outCrop.bottom)
        /\ (~TooWide /\ ~TooTall) => pure.outCrop = pure.crop

C13_Witness ==
    /\ CropScaled /\ TooWide
    /\ pure.outCrop.left - pure.crop.left = 1
    /\ pure.crop.right - pure.outCrop.right = 2

\* ---- the stored transform matrix
\* The crop computeTransformMatrix is given: empty when the crop is carried
\* by the EGLImage, the current crop otherwise.
EffectiveCrop(s) ==
    IF isEglImageCroppable(s.mCurrentCrop) THEN EMPTY_RECT ELSE s.mCurrentCrop
\* The stored matrix and what it is computed from.
MatrixAndInputs(s) ==
    [matrix |-> s.mCurrentTransformMatrix, image |-> s.mCurrentTextureImage,
     buf |-> IF s.mCurrentTextureImage = NULL THEN NULL
             ELSE GraphicBufferOf(s, s.mCurrentTextureImage),
     crop |-> s.mCurrentCrop, transform |-> s.mCurrentTransform,
     filtering |-> s.mFilteringEnabled]
FilteringChanged ==
    /\ call.op = "setFilteringEnabled" /\ ~call.pre.mAbandoned
    /\ call.val # call.pre.mFilteringEnabled

\* C14: whenever a current image exists, the stored matrix is
\* computeTransformMatrix of the current buffer, the effective crop, the
\* current transform and the current filtering flag.  A commit and a
\* setFilteringEnabled that changes the flag are the only operations that
\* change the matrix or what it is computed from; abandon drops the current
\* image and changes nothing else of it.
C14_MatrixOfCurrentInputs ==
    /\ blc.mCurrentTextureImage # NULL =>
          blc.mCurrentTransformMatrix =
              TransformMatrixOf[GraphicBufferOf(blc, blc.mCurrentTextureImage),
                                EffectiveCrop(blc), blc.mCurrentTransform,
                                blc.mFilteringEnabled]
    /\ FilteringChanged =>
          /\ blc.mFilteringEnabled = call.val
          /\ [MatrixAndInputs(blc) EXCEPT !.matrix = 0, !.filtering = 0] =
                [MatrixAndInputs(call.pre) EXCEPT !.matrix = 0, !.filtering = 0]
          /\ call.pre.mCurrentTextureImage = NULL =>
                blc.mCurrentTransformMatrix = call.pre.mCurrentTransformMatrix
    /\ call.op = "abandon" =>
          [MatrixAndInputs(blc) EXCEPT !.image = 0, !.buf = 0] =
            [MatrixAndInputs(call.pre) EXCEPT !.image = 0, !.buf = 0]
    /\ (call.op \in PublicOperations \cup {"freeBuffer"}
           /\ ~Committed /\ ~FilteringChanged) =>
          MatrixAndInputs(blc) = MatrixAndInputs(call.pre)

C14_Witness ==
    /\ FilteringChanged /\ call.val
    /\ blc.mCurrentTextureImage # NULL
    /\ ~RectIsEmpty(EffectiveCrop(blc))
    /\ blc.mCurrentTransformMatrix # call.pre.mCurrentTransformMatrix

\* ---- the release-side synchronisation
\* An updateTexImage acquired a slot other than the bound one while a buffer
\* was bound.
SlotChanged ==
    /\ Acquired
    /\ call.pre.mCurrentTexture # INVALID_BUFFER_SLOT
    /\ call.item.mSlot # call.pre.mCurrentTexture
\* The positions in the log where the previously bound buffer is released.
PreviousReleases ==
    {i \in 1 .. Len(call.log) :
        /\ call.log[i].e = "releaseBuffer"
        /\ call.log[i].slot = call.pre.mCurrentTexture}
\* What counts as a release-side synchronisation: attaching the exported
\* fence with the native strategy, a blocking wait or flush with the legacy
\* one.
ReleaseSideSync ==
    IF useNativeFenceSync THEN {"addReleaseFence"}
    ELSE {"glFlush", "glFinish", "eglClientWaitSyncKHR"}

\* C15 as the specification states it: under both fence strategies, when the
\* slot changes while a buffer is bound, a release-side synchronisation
\* precedes the release of the previous buffer: an exported fence attached
\* (native) or a blocking wait or flush (legacy).
C15_ReleaseSideSyncUnderBothStrategies ==
    SlotChanged =>
        \A i \in PreviousReleases :
            \E j \in 1 .. (i - 1) : call.log[j].e \in ReleaseSideSync

\* The buffer bound before the call.
PreviousBuffer == GraphicBufferOf(call.pre, call.pre.mCurrentTextureImage)
\* The positions in the log where a release fence is attached.
FenceAttachments ==
    {j \in 1 .. Len(call.log) : call.log[j].e = "addReleaseFence"}

\* C16: with native fence sync, in an updateTexImage that changes the bound
\* slot while a buffer is bound, every release of the previous buffer comes
\* after the sync object was created, exported and attached as a release
\* fence to the previous slot and buffer, in that order; a release fence is
\* attached to the previous slot and buffer only, never to the acquired slot.
C16_NativeFenceBeforeRelease ==
    (SlotChanged /\ useNativeFenceSync) =>
        /\ \A i \in PreviousReleases :
              /\ call.log[i].buf = PreviousBuffer
              /\ \E j \in FenceAttachments :
                    /\ j < i
                    /\ \E c \in 1 .. (j - 1), d \in 1 .. (j - 1) :
                          /\ c < d
                          /\ call.log[c].e = "eglCreateSyncKHR"
                          /\ call.log[d].e = "eglDupNativeFenceFDANDROID"
        /\ \A j \in FenceAttachments :
              /\ call.log[j].slot = call.pre.mCurrentTexture
              /\ call.log[j].slot # call.item.mSlot
              /\ call.log[j].buf = PreviousBuffer

C16_Witness ==
    /\ SlotChanged /\ useNativeFenceSync
    /\ PreviousReleases # {} /\ FenceAttachments # {}
    /\ Committed /\ call.ret = NO_ERROR

\* syncForReleaseLocked ran and the update stopped before the commit.
ReleaseSyncFailed ==
    Updated /\ "syncForRelease" \in Events(call.log) /\ ~Committed
\* The positions in the log where the acquired slot's buffer is released.
AcquiredReleases ==
    {i \in 1 .. Len(call.log) :
        /\ call.log[i].e = "releaseBuffer"
        /\ call.log[i].slot = call.item.mSlot
        /\ call.log[i].buf = blc.mSlots[call.item.mSlot]}

\* C17: when syncForReleaseLocked fails, updateTexImage releases the buffer
\* it just acquired exactly once, does not release the previously bound
\* buffer, returns the error of the failed step, and leaves every
\* CurrentBinding field and the current image's handle as before the call.
C17_ReleaseSyncFailureDropsNewFrame ==
    ReleaseSyncFailed =>
        /\ Cardinality(AcquiredReleases) = 1
        /\ PreviousReleases = {}
        /\ \A i \in 1 .. Len(call.log) :
              call.log[i].e = "releaseBuffer" => i \in AcquiredReleases
        /\ call.ret \in {UNKNOWN_ERROR, "ADD_FENCE_ERROR"}
        /\ call.ret = "ADD_FENCE_ERROR" <=> FenceAttachments # {}
        /\ CurrentBinding(blc) = CurrentBinding(call.pre)
        /\ ImageHandleValid(blc) = ImageHandleValid(call.pre)

C17_Witness ==
    /\ ReleaseSyncFailed /\ call.ret = "ADD_FENCE_ERROR"
    /\ call.item.mGraphicBuffer # NULL
    /\ ImageHandleValid(call.pre)

\* The release of the previously bound buffer failed in the commit.
OldReleaseFailed == Updated /\ "failed to release buffer" \in Events(call.log)

\* C18: when the release of the previously bound buffer fails, updateTexImage
\* still commits: the current slot, image, crop, transform, scaling mode,
\* timestamp, dataspace, fence, fence time and frame number become those of
\* the acquired item, the matrix is recomputed from them, and the call
\* returns the status of the failed release.
C18_ReleaseFailureStillCommits ==
    OldReleaseFailed =>
        /\ Committed
        /\ call.ret = "RELEASE_ERROR"
        /\ CurrentBinding(blc) =
              [slot |-> call.item.mSlot, image |-> blc.mEglSlots[call.item.mSlot],
               crop |-> call.item.mCrop, transform |-> call.item.mTransform,
               scalingMode |-> call.item.mScalingMode,
               timestamp |-> call.item.mTimestamp,
               dataSpace |-> call.item.mDataSpace, fence |-> call.item.mFence,
               fenceTime |-> call.item.mFenceTime,
               frameNumber |-> call.item.mFrameNumber,
               matrix |-> TransformMatrixOf[
                              blc.mSlots[call.item.mSlot],
                              IF isEglImageCroppable(call.item.mCrop)
                              THEN EMPTY_RECT ELSE call.item.mCrop,
                              call.item.mTransform, blc.mFilteringEnabled]]
        /\ blc.mCurrentTextureImage # NULL

C18_Witness ==
    /\ OldReleaseFailed
    /\ call.item.mSlot # call.pre.mCurrentTexture
    /\ CurrentBinding(blc).frameNumber # CurrentBinding(call.pre).frameNumber
    /\ blc.mCurrentTransformMatrix # call.pre.mCurrentTransformMatrix

\* ---- freeing a slot
Freed == call.op = "freeBuffer"
\* The current image is in no slot's cache: CurrentBinding holds the last
\* reference to it.
Orphaned(s) ==
    /\ s.mCurrentTextureImage # NULL
    /\ \A i \in Slots : s.mEglSlots[i] # s.mCurrentTextureImage
\* The freed slot's cached image was the one CurrentBinding refers to.
FreedCurrentImage == call.pre.mEglSlots[call.val] = call.pre.mCurrentTextureImage

\* C19: freeing a slot empties that slot's cached image and no other; the
\* current slot becomes INVALID_BUFFER_SLOT exactly when the freed slot was
\* the current one; the current image reference and every other
\* CurrentBinding field stay as they were, and the EglImage object the
\* current image refers to is not touched: it is not destroyed, and it stays
\* as it is through every later operation until a commit replaces the
\* reference or abandon clears it.  The freed slot's image is destroyed only
\* if CurrentBinding does not refer to it.
C19_FreeKeepsCurrentImage ==
    /\ Freed =>
          /\ blc.mEglSlots[call.val] = NULL
          /\ \A i \in Slots \ {call.val} : blc.mEglSlots[i] = call.pre.mEglSlots[i]
          /\ blc.mCurrentTexture =
                IF call.val = call.pre.mCurrentTexture THEN INVALID_BUFFER_SLOT
                ELSE call.pre.mCurrentTexture
          /\ [CurrentBinding(blc) EXCEPT !.slot = INVALID_BUFFER_SLOT] =
                [CurrentBinding(call.pre) EXCEPT !.slot = INVALID_BUFFER_SLOT]
          /\ call.pre.mCurrentTextureImage # NULL =>
                blc.heap[blc.mCurrentTextureImage] =
                    call.pre.heap[call.pre.mCurrentTextureImage]
          /\ Events(call.log) \subseteq {"eglDestroyImageKHR"}
          /\ "eglDestroyImageKHR" \in Events(call.log) <=>
                /\ call.pre.mEglSlots[call.val] # NULL /\ ~FreedCurrentImage
                /\ call.pre.heap[call.pre.mEglSlots[call.val]].mEglImage.valid
    /\ call.op = "abandon" => blc.mCurrentTextureImage = NULL
    /\ (Orphaned(call.pre) /\ call.op \in PublicOperations \cup {"freeBuffer"}
           /\ ~Committed) =>
          /\ blc.mCurrentTextureImage = call.pre.mCurrentTextureImage
          /\ blc.heap[blc.mCurrentTextureImage] =
                call.pre.heap[call.pre.mCurrentTextureImage]

C19_Witness ==
    /\ Freed /\ call.val = call.pre.mCurrentTexture /\ FreedCurrentImage
    /\ ImageHandleValid(blc) /\ Orphaned(blc)

\* ---- createIfNeeded
Ensured == pure.fn = "createIfNeeded"
HadHandle == pure.before.mEglImage # EGL_NO_IMAGE_KHR
\* The handle was created against another display, or with another crop
\* while the crop attribute is supported.
HandleStale ==
    \/ pure.before.mEglDisplay # pure.eglDisplay
    \/ hasEglAndroidImageCrop /\ pure.before.mCropRect # pure.cropRect
\* The positions of an EGL call in the log of the applied createIfNeeded.
EnsureEvents(e) == {i \in 1 .. Len(pure.log) : pure.log[i].e = e}

\* C20: createIfNeeded destroys the EGLImageKHR the object holds exactly when
\* the display differs from the recorded one, or the crop differs from the
\* recorded one and EGL_ANDROID_image_crop is supported; otherwise the object
\* is left exactly as it is.  After a successful call the object holds a
\* handle, its display is the requested one and, with the crop extension,
\* its crop is the requested one.  The recorded display and crop of a held
\* handle never change without a destroy followed by a create.
C20_DestroyIffStale ==
    Ensured =>
        /\ EnsureEvents("eglDestroyImageKHR") # {} <=> (HadHandle /\ HandleStale)
        /\ EnsureEvents("eglCreateImageKHR") # {} <=> (~HadHandle \/ HandleStale)
        /\ \A i \in EnsureEvents("eglDestroyImageKHR") :
              \E j \in EnsureEvents("eglCreateImageKHR") : i < j
        /\ (HadHandle /\ ~HandleStale) =>
              (pure.after = pure.before /\ pure.ret = NO_ERROR)
        /\ pure.ret = NO_ERROR =>
              /\ pure.after.mEglImage # EGL_NO_IMAGE_KHR
              /\ pure.after.mEglDisplay = pure.eglDisplay
              /\ hasEglAndroidImageCrop => pure.after.mCropRect = pure.cropRect
        /\ (HadHandle /\ pure.after.mEglImage # EGL_NO_IMAGE_KHR
               /\ <<pure.after.mEglDisplay, pure.after.mCropRect>> #
                     <<pure.before.mEglDisplay, pure.before.mCropRect>>) =>
              /\ EnsureEvents("eglDestroyImageKHR") # {}
              /\ pure.after.mEglImage =
                    createImage(TRUE, pure.after.mGraphicBuffer, pure.cropRect)
        /\ pure.after.mGraphicBuffer = pure.before.mGraphicBuffer

C20_Witness ==
    /\ Ensured /\ HadHandle /\ pure.ret = NO_ERROR
    /\ pure.before.mEglDisplay = pure.eglDisplay
    /\ pure.before.mCropRect # pure.cropRect /\ hasEglAndroidImageCrop
    /\ EnsureEvents("eglDestroyImageKHR") # {}
    /\ pure.after.mEglImage # pure.before.mEglImage

\* ---- image creation failure
\* The positions of an EGL call in the log of the operation.
EnsureCalls(e) == {i \in 1 .. Len(call.log) : call.log[i].e = e}
\* createIfNeeded called eglCreateImageKHR and the update stopped there.
ImageCreationFailed ==
    /\ Acquired /\ EnsureCalls("eglCreateImageKHR") # {}
    /\ ~Committed /\ "syncForRelease" \notin Events(call.log)
\* The EglImage object cached for the acquired slot, after and before the
\* update (before: the object the acquire found or constructed).
AcquiredImage == blc.heap[blc.mEglSlots[call.item.mSlot]]
HadCachedHandle ==
    /\ call.item.mGraphicBuffer = NULL
    /\ call.pre.mEglSlots[call.item.mSlot] # NULL
    /\ call.pre.heap[call.pre.mEglSlots[call.item.mSlot]].mEglImage # EGL_NO_IMAGE_KHR

\* C21: when eglCreateImageKHR fails in an updateTexImage, the acquired
\* slot's EglImage is left with no handle and no display, the acquired buffer
\* is released exactly once, UNKNOWN_ERROR is returned and the consumer
\* stays usable (not abandoned, not crashed).  An update that acquires a slot
\* whose EglImage holds no handle always calls eglCreateImageKHR again, and
\* ends with a handle for the slot unless that call fails again.
C21_CreationFailureIsRetryable ==
    /\ ImageCreationFailed =>
          /\ AcquiredImage.mEglImage = EGL_NO_IMAGE_KHR
          /\ AcquiredImage.mEglDisplay = EGL_NO_DISPLAY
          /\ Cardinality(AcquiredReleases) = 1
          /\ call.ret = UNKNOWN_ERROR
          /\ ~blc.mAbandoned /\ ~blc.crashed
    /\ (Acquired /\ ~HadCachedHandle) =>
          /\ EnsureCalls("eglCreateImageKHR") # {}
          /\ ImageCreationFailed \/ AcquiredImage.mEglImage # EGL_NO_IMAGE_KHR

C21_Witness ==
    /\ Acquired /\ Committed /\ call.ret = NO_ERROR
    /\ call.item.mGraphicBuffer = NULL
    /\ call.pre.heap[call.pre.mEglSlots[call.item.mSlot]].mEglImage = EGL_NO_IMAGE_KHR
    /\ call.pre.heap[call.pre.mEglSlots[call.item.mSlot]].mCropRect = INVALID_RECT
    /\ AcquiredImage.mEglImage # EGL_NO_IMAGE_KHR

\* ---- the two crop mechanisms
\* The EGLImageKHR of the current image carries the current crop in its
\* EGL_IMAGE_CROP_*_ANDROID attributes.
CropCarriedByImage(s) ==
    LET image == s.heap[s.mCurrentTextureImage].mEglImage
    IN  /\ image # EGL_NO_IMAGE_KHR
        /\ {EGL_IMAGE_CROP_LEFT_ANDROID, EGL_IMAGE_CROP_TOP_ANDROID,
            EGL_IMAGE_CROP_RIGHT_ANDROID, EGL_IMAGE_CROP_BOTTOM_ANDROID}
              \subseteq DOMAIN image.attribs
        /\ MakeRect(image.attribs[EGL_IMAGE_CROP_LEFT_ANDROID],
                    image.attribs[EGL_IMAGE_CROP_TOP_ANDROID],
                    image.attribs[EGL_IMAGE_CROP_RIGHT_ANDROID],
                    image.attribs[EGL_IMAGE_CROP_BOTTOM_ANDROID]) = s.mCurrentCrop
\* No crop attribute at all on the current image.
CropOmittedFromImage(s) ==
    LET image == s.heap[s.mCurrentTextureImage].mEglImage
    IN  DOMAIN image.attribs \cap
            {EGL_IMAGE_CROP_LEFT_ANDROID, EGL_IMAGE_CROP_TOP_ANDROID,
             EGL_IMAGE_CROP_RIGHT_ANDROID, EGL_IMAGE_CROP_BOTTOM_ANDROID} = {}
\* The stored matrix is the one computed with the current crop, and not the
\* one computed without a crop.
CropAppliedByMatrix(s) ==
    LET buf == GraphicBufferOf(s, s.mCurrentTextureImage)
    IN  /\ s.mCurrentTransformMatrix =
              TransformMatrixOf[buf, s.mCurrentCrop, s.mCurrentTransform,
                                s.mFilteringEnabled]
        /\ s.mCurrentTransformMatrix #
              TransformMatrixOf[buf, EMPTY_RECT, s.mCurrentTransform,
                                s.mFilteringEnabled]
CropAtOrigin(s) == s.mCurrentCrop.left = 0 /\ s.mCurrentCrop.top = 0
ExactlyOneCropMechanism(s) ==
    /\ CropCarriedByImage(s) <=> (hasEglAndroidImageCrop /\ CropAtOrigin(s))
    /\ ~CropCarriedByImage(s) =>
          (CropOmittedFromImage(s) /\ CropAppliedByMatrix(s))
    /\ CropCarriedByImage(s) => ~CropAppliedByMatrix(s)

\* C22 as the specification states it: for every binding with a non-empty
\* crop, the image carries the crop attribute exactly when the extension is
\* supported and the crop starts at (0, 0), otherwise the attribute is left
\* out and the matrix applies the crop; never both and never neither.
C22_CropByExactlyOneMechanism ==
    (blc.mCurrentTextureImage # NULL /\ ~RectIsEmpty(blc.mCurrentCrop)) =>
        ExactlyOneCropMechanism(blc)

\* What holds of C22: the same for every binding whose image holds an
\* EGLImageKHR, which is the case of every binding at its commit.
C22_CropByExactlyOneMechanismWithHandle ==
    /\ (ImageHandleValid(blc) /\ ~RectIsEmpty(blc.mCurrentCrop)) =>
          ExactlyOneCropMechanism(blc)
    /\ Committed => ImageHandleValid(blc)

\* ---- the deferred release
\* updateAndReleaseLocked was given a PendingRelease and committed.
PendingCommitted ==
    call.op = "updateAndReleaseLocked" /\ "commit" \in Events(call.log)
WasBound == call.pre.mCurrentTexture # INVALID_BUFFER_SLOT
\* The positions in the log of any releaseBuffer.
Releases == {i \in 1 .. Len(call.log) : call.log[i].e = "releaseBuffer"}

\* C23: with a PendingRelease and a bound buffer, the commit calls no
\* releaseBuffer; the PendingRelease holds the previous slot and the
\* previous buffer and is marked pending, and the acquired item is
\* committed.  With no bound buffer the PendingRelease is left as it was.
\* Without a PendingRelease (updateTexImage) a commit over a bound buffer
\* releases the previous slot and buffer, once, before the commit.
C23_DeferredRelease ==
    /\ PendingCommitted =>
          /\ Releases = {}
          /\ blc.mCurrentTexture = call.item.mSlot
          /\ blc.mCurrentTextureImage = blc.mEglSlots[call.item.mSlot]
          /\ blc.mCurrentFrameNumber = call.item.mFrameNumber
          /\ blc.mCurrentCrop = call.item.mCrop
          /\ call.val.out =
                IF WasBound
                THEN [isPending |-> TRUE, currentTexture |-> call.pre.mCurrentTexture,
                      graphicBuffer |-> PreviousBuffer]
                ELSE call.val.in
    /\ (call.op = "updateAndReleaseLocked" /\ ~PendingCommitted) =>
          call.val.out = call.val.in
    /\ (Committed /\ WasBound) =>
          /\ Cardinality(Releases) = 1
          /\ \A i \in Releases :
                /\ call.log[i].slot = call.pre.mCurrentTexture
                /\ call.log[i].buf = PreviousBuffer
                /\ \E j \in (i + 1) .. Len(call.log) : call.log[j].e = "commit"
          /\ blc.pendingRelease = call.pre.pendingRelease

C23_Witness ==
    /\ PendingCommitted /\ WasBound
    /\ call.val.in.isPending
    /\ call.val.out.currentTexture # call.val.in.currentTexture
    /\ call.item.mSlot # call.pre.mCurrentTexture

\* ---- the current buffer and the queue
\* The buffer of the binding that is current when the operation returns.
CurrentBuffer ==
    IF blc.mCurrentTextureImage = NULL THEN NULL
    ELSE GraphicBufferOf(blc, blc.mCurrentTextureImage)
\* The releases of the slot and buffer that are current at the return.
CurrentReleases ==
    {i \in Releases :
        /\ call.log[i].slot = blc.mCurrentTexture
        /\ call.log[i].buf = CurrentBuffer}

\* C24: an updateTexImage calls releaseBuffer only for a buffer that is no
\* longer current when the call returns, never for the slot and buffer of
\* the binding that is current at the return.
C24_CurrentBufferNeverReleased ==
    Updated => CurrentReleases = {}

\* The same with the two cases set aside in which the acquired slot is the
\* slot bound before the call.
C24_CurrentBufferNeverReleasedOtherSlot ==
    (Acquired /\ call.item.mSlot # call.pre.mCurrentTexture) => CurrentReleases = {}

\* ---- the current image is there whenever a slot is bound
\* C25: after any sequence of operations, a bound slot (mCurrentTexture not
\* INVALID_BUFFER_SLOT) comes with a non-null mCurrentTextureImage, and no
\* operation has dereferenced a null mCurrentTextureImage.
C25_BoundSlotHasImage ==
    /\ blc.mCurrentTexture # INVALID_BUFFER_SLOT => blc.mCurrentTextureImage # NULL
    /\ ~blc.crashed
    /\ call.ret # "CRASH"

\* abandon on a consumer with a bound slot: the image reference is cleared
\* and the slot with it.
C25_Witness ==
    /\ call.op = "abandon"
    /\ call.pre.mCurrentTexture # INVALID_BUFFER_SLOT
    /\ call.pre.mCurrentTextureImage # NULL
    /\ blc.mCurrentTextureImage = NULL
    /\ blc.mCurrentTexture = INVALID_BUFFER_SLOT

\* ---- no acquired buffer is leaked
\* The acquired item is what the consumer has bound at the return.
AcquiredIsCurrent ==
    /\ blc.mCurrentTexture = call.item.mSlot
    /\ blc.mCurrentTextureImage = blc.mEglSlots[call.item.mSlot]
    /\ CurrentBuffer = blc.mSlots[call.item.mSlot]
    /\ blc.mCurrentFrameNumber = call.item.mFrameNumber

\* C26: when an updateTexImage that acquired a buffer returns, the buffer
\* is the committed CurrentBinding or has been released to the queue exactly
\* once; a buffer committed to a slot other than the one bound before is not
\* released, and the call acquires once.
C26_NoAcquiredBufferLeaked ==
    Acquired =>
        /\ Cardinality(EnsureCalls("acquireBuffer")) = 1
        /\ Committed => AcquiredIsCurrent
        /\ ~Committed => Cardinality(AcquiredReleases) = 1
        /\ (Committed /\ call.item.mSlot # call.pre.mCurrentTexture) =>
              AcquiredReleases = {}

\* An update dropped because the release sync failed while another slot is
\* bound: the acquired buffer goes back once and the binding stays.
C26_Witness ==
    /\ Acquired /\ ~Committed
    /\ "syncForRelease" \in Events(call.log)
    /\ call.pre.mCurrentTexture \notin {INVALID_BUFFER_SLOT, call.item.mSlot}
    /\ Cardinality(AcquiredReleases) = 1
    /\ Cardinality(Releases) = 1
    /\ CurrentBinding(blc) = CurrentBinding(call.pre)

====
